---- MODULE Spec2Model ----
(***************************************************************************)
(* Model of the libosmium PBF input pipeline                               *)
(* (include/osmium/io/detail/pbf_input_format.hpp).                        *)
(*                                                                         *)
(* Threads: the upstream reader that fills m_input_queue, the framer       *)
(* (PBFParser::operator()), the pool workers that run the data blob        *)
(* decoders, and the consumer that calls header(), read() and close() on   *)
(* PBFInputFormat.                                                         *)
(*                                                                         *)
(* The input stream is a sequence of stream elements.  A length prefix is  *)
(* four byte elements, a BlobHeader is a sequence of protobuf field        *)
(* elements (one element per field), a Blob body is a sequence of byte     *)
(* elements.  Sizes count stream elements.                                 *)
(***************************************************************************)
EXTENDS Integers, Sequences, FiniteSets, TLC

\* ---------------------------------------------------------------- bounds
MaxBlobs == 2          \* OSMData blobs in a stream
MaxChunk == 3          \* largest chunk the upstream reader pushes
MaxReads == 4          \* read() calls the consumer makes
MaxHeaderCalls == 1    \* header() calls the consumer makes
MaxSets == 2           \* set() calls made on the location indexes
MaxFields == 3         \* fields after the id of an OPL line
MaxItems == 3          \* items of an N or M section
MaxZeros == 16         \* zeros in front of the digits of a number
MaxPieces == 2         \* chars and escapes of a string

\* scaled-down program limits
max_input_queue_size == 1
max_queue_size == 1
max_blob_header_size == 3
max_uncompressed_blob_size == 2

\* sizeof(size_in_network_byte_order)
SizeOfUint32 == 4

\* ------------------------------------------------------- stream elements
Byte(v) == [tag |-> 0, val |-> v, str |-> <<>>]

\* FileFormat::BlobHeader field numbers
required_string_type == 1
optional_bytes_indexdata == 2
required_int32_datasize == 3

TypeField(s) == [tag |-> required_string_type, val |-> 0, str |-> s]
IndexdataField == [tag |-> optional_bytes_indexdata, val |-> 0, str |-> <<>>]
DatasizeField(n) == [tag |-> required_int32_datasize, val |-> n, str |-> <<>>]

OSMHeader == <<"O", "S", "M", "H", "e", "a", "d", "e", "r">>
OSMData == <<"O", "S", "M", "D", "a", "t", "a">>

\* the four bytes of a uint32 in network byte order
Htonl(n) ==
    << Byte(n \div 16777216), Byte((n \div 65536) % 256),
       Byte((n \div 256) % 256), Byte(n % 256) >>

\* ntohl(*reinterpret_cast<const uint32_t*>(input_data.data()))
Ntohl(b) ==
    b[1].val * 16777216 + b[2].val * 65536 + b[3].val * 256 + b[4].val

Min(a, b) == IF a < b THEN a ELSE b

RECURSIVE Concat(_)
Concat(ss) == IF ss = <<>> THEN <<>> ELSE Head(ss) \o Concat(Tail(ss))

\* the substr/resize/swap of read_from_input_queue: the first size elements
\* are returned, the others stay in m_input_buffer
\* (variant) nothing stays in m_input_buffer
TakeRestNone(buffer, size) == <<>>

TakeOutput(buffer, size) == SubSeq(buffer, 1, size)
TakeRest(buffer, size) == SubSeq(buffer, size + 1, Len(buffer))

\* ------------------------------------------------------------ BlobHeader
NUL == "NUL"
CharAt(s, i) == IF i <= Len(s) THEN s[i] ELSE NUL

\* strncmp(s1, s2, n) with s1 a NUL-terminated string and s2 a pointer to n
\* characters: 0 when no difference is found in the first n characters
RECURSIVE StrncmpFrom(_, _, _, _)
StrncmpFrom(s1, s2, n, i) ==
    IF i > n THEN 0
    ELSE IF CharAt(s1, i) # s2[i] THEN 1
    ELSE IF CharAt(s1, i) = NUL THEN 0
    ELSE StrncmpFrom(s1, s2, n, i + 1)

Strncmp(s1, s2, n) == StrncmpFrom(s1, s2, n, 1)

\* the while (pbf_blob_header.next()) loop: the last field of a tag wins,
\* fields of other tags are skipped
RECURSIVE BlobHeaderType(_)
BlobHeaderType(fields) ==
    IF fields = <<>> THEN <<>>
    ELSE IF fields[Len(fields)].tag = required_string_type
         THEN fields[Len(fields)].str
         ELSE BlobHeaderType(SubSeq(fields, 1, Len(fields) - 1))

RECURSIVE BlobHeaderDatasize(_)
BlobHeaderDatasize(fields) ==
    IF fields = <<>> THEN 0
    ELSE IF fields[Len(fields)].tag = required_int32_datasize
         THEN fields[Len(fields)].val
         ELSE BlobHeaderDatasize(SubSeq(fields, 1, Len(fields) - 1))

ErrTruncated == "truncated data (EOF encountered)"
ErrHeaderSize == "invalid BlobHeader size (> max_blob_header_size)"
ErrDatasize == "PBF format error: BlobHeader.datasize missing or zero."
ErrType == "blob does not have expected type"
ErrBlobSize == "invalid blob size"
ErrDecode == "blob contains no data"
ErrBrokenPromise == "future_error: broken promise"
ErrFutureRetrieved == "future_error: future already retrieved"
NoErr == ""

TypeMatches(expected_type, blob_header_type) ==
    Strncmp(expected_type, blob_header_type, Len(blob_header_type)) = 0

decode_blob_header(fields, expected_type) ==
    LET blob_header_type == BlobHeaderType(fields)
        blob_header_datasize == BlobHeaderDatasize(fields)
    IN  IF blob_header_datasize = 0
        THEN [err |-> ErrDatasize, size |-> 0]
        ELSE IF ~TypeMatches(expected_type, blob_header_type)
        THEN [err |-> ErrType, size |-> 0]
        ELSE [err |-> NoErr, size |-> blob_header_datasize]

\* --------------------------------------------------------------- decoders
Vals(bytes) == [i \in 1..Len(bytes) |-> bytes[i].val]
Corrupt(bytes) == bytes = <<>> \/ \E i \in 1..Len(bytes) : bytes[i].val = 0

\* osm_entity_bits
nothing == {}
EntityKind(v) == IF v % 2 = 1 THEN "node" ELSE "way"
Selected(v, read_types) == EntityKind(v) \in read_types

\* a Buffer: valid is false for the default-constructed Buffer{}
EmptyBuffer == [valid |-> FALSE, ents |-> <<>>]

\* PBFDataBlobDecoder::operator(): the entities of the blob that read_types
\* selects, or pbf_error
DecodeDataBlob(bytes, read_types) ==
    IF Corrupt(bytes)
    THEN [err |-> ErrDecode, buffer |-> EmptyBuffer]
    ELSE [err |-> NoErr,
          buffer |-> [valid |-> TRUE,
                      ents |-> SelectSeq(Vals(bytes),
                                         LAMBDA v : Selected(v, read_types))]]

\* decode_header(): the Header of the blob, or pbf_error
DefaultHeader == <<>>
decode_header(bytes) ==
    IF Corrupt(bytes)
    THEN [err |-> ErrDecode, header |-> DefaultHeader]
    ELSE [err |-> NoErr, header |-> Vals(bytes)]

\* ------------------------------------------------------------ the inputs
\* A frame is a BlobHeader (its fields), the length prefix written in front
\* of it and the Blob body.  Frame 0 is the OSMHeader blob, frame k >= 1 is
\* the k-th OSMData blob; its body holds the entity k.
GoodType(k) == IF k = 0 THEN OSMHeader ELSE OSMData
OtherType(k) == IF k = 0 THEN OSMData ELSE OSMHeader
GoodBody(k) == IF k = 0 THEN <<Byte(99)>> ELSE <<Byte(k)>>

Kinds ==
    { "none", "type_prefix", "type_empty", "type_other", "type_longer",
      "datasize_missing", "indexdata", "prefix_big", "prefix_zero",
      "body_big", "body_max", "corrupt" }

FrameBody(k, kind) ==
    CASE kind = "corrupt" -> <<Byte(0)>>
      [] kind = "body_big" ->
            [i \in 1..(max_uncompressed_blob_size + 1) |-> Byte(k + 2 * i)]
      [] kind = "body_max" ->
            [i \in 1..max_uncompressed_blob_size |-> Byte(k + 2 * i)]
      [] OTHER -> GoodBody(k)

FrameType(k, kind) ==
    CASE kind = "type_prefix" -> SubSeq(GoodType(k), 1, 3)
      [] kind = "type_empty" -> <<>>
      [] kind = "type_other" -> OtherType(k)
      [] kind = "type_longer" -> GoodType(k) \o <<"X">>
      [] OTHER -> GoodType(k)

FrameBlobHeader(k, kind) ==
    LET t == TypeField(FrameType(k, kind))
        d == DatasizeField(Len(FrameBody(k, kind)))
    IN  CASE kind = "datasize_missing" -> <<t>>
          [] kind = "indexdata" -> <<t, IndexdataField, d>>
          [] OTHER -> <<t, d>>

FramePrefix(k, kind) ==
    CASE kind = "prefix_big" -> max_blob_header_size + 1
      [] kind = "prefix_zero" -> 0
      [] OTHER -> Len(FrameBlobHeader(k, kind))

Frame(k, kind) ==
    [blob_header |-> FrameBlobHeader(k, kind),
     prefix |-> FramePrefix(k, kind),
     body |-> FrameBody(k, kind)]

Encode(frame) == Htonl(frame.prefix) \o frame.blob_header \o frame.body

\* the frames of a stream with n data blobs in which frame at is of the
\* given kind and the others are well formed
Frames(n, kind, at) ==
    [i \in 1..(n + 1) |-> Frame(i - 1, IF i - 1 = at THEN kind ELSE "none")]

StreamOf(frames) == Concat([i \in 1..Len(frames) |-> Encode(frames[i])])

GoodFrameLen == Len(Encode(Frame(0, "none")))

\* One deviation per stream: any kind in the last frame, a corrupt body in
\* any frame, or a well-formed stream cut inside its last frame.  A stream
\* cut inside its last frame may have a corrupt data blob before it.  The
\* stream of the header blob alone may be cut to the empty input.
Scenarios ==
    { sc \in [n : 0..MaxBlobs, kind : Kinds, at : 0..MaxBlobs, cut : 0..GoodFrameLen] :
        /\ sc.at <= sc.n
        /\ sc.cut = GoodFrameLen => sc.n = 0
        /\ sc.kind # "corrupt" => sc.at = sc.n
        /\ sc.cut > 0 =>
              \/ sc.kind = "none"
              \/ sc.kind = "corrupt" /\ 1 <= sc.at /\ sc.at < sc.n }

ScenarioStream(sc) ==
    LET whole == StreamOf(Frames(sc.n, sc.kind, sc.at))
    IN  SubSeq(whole, 1, Len(whole) - sc.cut)

ReadTypes == { nothing, {"node"} }

\* ----------------------------------------------------------- OPL parser
\* the printable ASCII characters, from ' ' (32) to '~' (126); the chars
\* that cannot be written in a string are written by name
Ascii ==
    << " ", "!", "QUOTE", "#", "$", "%", "&", "'", "(", ")", "*", "+", ",",
       "-", ".", "/", "0", "1", "2", "3", "4", "5", "6", "7", "8", "9",
       ":", ";", "<", "=", ">", "?", "@", "A", "B", "C", "D", "E", "F",
       "G", "H", "I", "J", "K", "L", "M", "N", "O", "P", "Q", "R", "S",
       "T", "U", "V", "W", "X", "Y", "Z", "[", "BACKSLASH", "]", "^", "_",
       "BACKTICK",
       "a", "b", "c", "d", "e", "f", "g", "h", "i", "j", "k", "l", "m",
       "n", "o", "p", "q", "r", "s", "t", "u", "v", "w", "x", "y", "z",
       "{", "|", "}", "~" >>

\* the value of a char
Code ==
    [c \in {Ascii[i] : i \in 1..Len(Ascii)} |->
        (CHOOSE i \in 1..Len(Ascii) : Ascii[i] = c) + 31]

Tab == 9
Nul == 0
\* what a read beyond the terminating NUL finds
Beyond == 0 - 1

\* a string literal as its chars
Str(t) == [i \in 1..Len(t) |-> Code[t[i]]]

\* *s for a pointer s into the NUL-terminated line (s = 1 is the start)
Deref(line, s) ==
    IF s <= Len(line) THEN line[s]
    ELSE IF s = Len(line) + 1 THEN Nul
    ELSE Beyond

\* what a parsing function returns, or the exception that leaves it
Ok(s, val) == [err |-> NoErr, kind |-> "", data |-> 0, s |-> s, val |-> val]
Exception(kind, msg, data, val) ==
    [err |-> msg, kind |-> kind, data |-> data, s |-> data, val |-> val]
opl_error(msg, data) == Exception("opl_error", msg, data, 0)
Failed(r) == r.err # NoErr

IsSpace(c) == c = Code[" "] \/ c = Tab

RECURSIVE SkipSpaces(_, _)
SkipSpaces(line, s) ==
    IF IsSpace(Deref(line, s)) THEN SkipSpaces(line, s + 1) ELSE s

opl_parse_space(line, s) ==
    IF ~IsSpace(Deref(line, s))
    THEN opl_error("expected space or tab character", s)
    ELSE Ok(SkipSpaces(line, s + 1), 0)

opl_non_empty(line, s) ==
    Deref(line, s) # Nul /\ ~IsSpace(Deref(line, s))

\* (variant) skips the char that ends the section as well
RECURSIVE opl_skip_section_past(_, _)
opl_skip_section_past(line, s) ==
    IF opl_non_empty(line, s) THEN opl_skip_section_past(line, s + 1)
    ELSE s + 1

RECURSIVE opl_skip_section(_, _)
opl_skip_section(line, s) ==
    IF opl_non_empty(line, s) THEN opl_skip_section(line, s + 1) ELSE s

IsDigit(c) == c \in Code["0"]..Code["9"]

\* utf8::utf32to8 of one code point: its UTF-8 bytes
Utf32to8(value) ==
    IF value < 128 THEN << value >>
    ELSE IF value < 2048
    THEN << 192 + (value \div 64), 128 + (value % 64) >>
    ELSE IF value < 65536
    THEN << 224 + (value \div 4096), 128 + ((value \div 64) % 64),
            128 + (value % 64) >>
    ELSE << 240 + (value \div 262144), 128 + ((value \div 4096) % 64),
            128 + ((value \div 64) % 64), 128 + (value % 64) >>

\* a code point utf8::utf32to8 refuses
InvalidCodePoint(value) ==
    value > 1114111 \/ value \in 55296..57343

max_escape_length == 8

\* the loop of opl_parse_escaped from its turn number length on
RECURSIVE opl_parse_escaped_from(_, _, _, _, _)
opl_parse_escaped_from(line, s, value, length, result) ==
    LET c == Deref(line, s)
    IN  IF length > max_escape_length
        THEN opl_error("hex escape too long", s)
        ELSE IF c = Nul THEN opl_error("eol", s)
        ELSE IF c = Code["%"]
        THEN IF InvalidCodePoint(value)
             THEN Exception("invalid_code_point", "invalid code point",
                            s, 0)
             ELSE Ok(s + 1, result \o Utf32to8(value))
        ELSE IF IsDigit(c)
        THEN opl_parse_escaped_from(line, s + 1,
                 value * 16 + (c - Code["0"]), length + 1, result)
        ELSE IF c \in Code["a"]..Code["f"]
        THEN opl_parse_escaped_from(line, s + 1,
                 value * 16 + (c - Code["a"] + 10), length + 1, result)
        ELSE IF c \in Code["A"]..Code["F"]
        THEN opl_parse_escaped_from(line, s + 1,
                 value * 16 + (c - Code["A"] + 10), length + 1, result)
        ELSE opl_error("not a hex char", s)

opl_parse_escaped(line, s, result) ==
    opl_parse_escaped_from(line, s, 0, 1, result)

\* (variant) '=' does not end a string
IsStringEndNoEquals(c) ==
    c = Nul \/ IsSpace(c) \/ c = Code[","]

IsStringEnd(c) ==
    c = Nul \/ IsSpace(c) \/ c = Code[","] \/ c = Code["="]

\* appends the chars of a string to result; val is the new result
RECURSIVE opl_parse_string(_, _, _)
opl_parse_string(line, s, result) ==
    LET c == Deref(line, s)
    IN  IF IsStringEnd(c) THEN Ok(s, result)
        ELSE IF c = Code["%"]
        THEN LET r == opl_parse_escaped(line, s + 1, result)
             IN  IF Failed(r) THEN r
                 ELSE opl_parse_string(line, r.s, r.val)
        ELSE opl_parse_string(line, s + 1, Append(result, c))

max_int_len == 16

\* the integer types of osmium/osm/types.hpp
IntType(signed, bits) == [signed |-> signed, bits |-> bits]
object_id_type == IntType(TRUE, 64)
changeset_id_type == IntType(FALSE, 32)
object_version_type == IntType(FALSE, 32)
user_id_type == IntType(TRUE, 32)
num_changes_type == IntType(FALSE, 32)
num_comments_type == IntType(FALSE, 32)

Int32Max == 2147483647

\* value < std::numeric_limits<T>::min(), for a value that is not positive
BelowMin(value, T) ==
    IF ~T.signed THEN value < 0
    ELSE IF T.bits = 64 THEN FALSE
    ELSE value < -Int32Max - 1

\* value > std::numeric_limits<T>::max(), for a value that is not negative
AboveMax(value, T) ==
    IF T.bits = 64 THEN FALSE
    ELSE IF T.signed THEN value > Int32Max
    ELSE value \div 2 > Int32Max

\* the digit loop of opl_parse_int: n counts down from max_int_len
RECURSIVE opl_parse_digits(_, _, _, _)
opl_parse_digits(line, s, value, n) ==
    IF IsDigit(Deref(line, s))
    THEN IF n - 1 = 0
         THEN opl_error("integer too long", s)
         ELSE opl_parse_digits(line, s + 1,
                  value * 10 + (Deref(line, s) - Code["0"]), n - 1)
    ELSE [err |-> NoErr, kind |-> "", data |-> 0, s |-> s, val |-> value,
          n |-> n]

\* opl_parse_int behind its digit loop, which gave r
IntOf(r, negative, T) ==
    IF Failed(r) THEN r
    ELSE IF r.n = max_int_len THEN opl_error("expected integer", r.s)
    ELSE IF negative /\ BelowMin(-r.val, T)
    THEN opl_error("integer too long", r.s)
    ELSE IF ~negative /\ AboveMax(r.val, T)
    THEN opl_error("integer too long", r.s)
    ELSE Ok(r.s, IF negative THEN -r.val ELSE r.val)

opl_parse_int(line, s0, T) ==
    IF Deref(line, s0) = Nul THEN opl_error("expected integer", s0)
    ELSE IF Deref(line, s0) = Code["-"]
    THEN IntOf(opl_parse_digits(line, s0 + 1, 0, max_int_len), TRUE, T)
    ELSE IntOf(opl_parse_digits(line, s0, 0, max_int_len), FALSE, T)

opl_parse_id(line, s) == opl_parse_int(line, s, object_id_type)
opl_parse_changeset_id(line, s) == opl_parse_int(line, s, changeset_id_type)
opl_parse_version(line, s) == opl_parse_int(line, s, object_version_type)
opl_parse_uid(line, s) == opl_parse_int(line, s, user_id_type)

opl_parse_visible(line, s) ==
    IF Deref(line, s) = Code["V"] THEN Ok(s + 1, TRUE)
    ELSE IF Deref(line, s) = Code["D"] THEN Ok(s + 1, FALSE)
    ELSE opl_error("invalid visible flag", s)

timestamp_length == 20

\* osmium::Timestamp{} and osmium::Timestamp{const char*}: the timestamp
\* is yyyy-mm-ddThh:mm:ssZ
NoTimestamp == <<>>
TimestampFormat == Str(<< "y", "y", "y", "y", "-", "m", "m", "-", "d", "d",
                          "T", "h", "h", ":", "m", "m", ":", "s", "s",
                          "Z" >>)
IsTimestamp(line, s) ==
    \A i \in 1..timestamp_length :
        IF TimestampFormat[i] \in Code["a"]..Code["z"]
        THEN IsDigit(Deref(line, s + i - 1))
        ELSE Deref(line, s + i - 1) = TimestampFormat[i]

opl_parse_timestamp(line, s) ==
    IF Deref(line, s) = Nul \/ IsSpace(Deref(line, s))
    THEN Ok(s, NoTimestamp)
    ELSE IF IsTimestamp(line, s)
    THEN Ok(s + timestamp_length,
            SubSeq(line, s, s + timestamp_length - 1))
    ELSE opl_error("can not parse timestamp", s)

\* the message "expected '" + c + "'" for the chars it is asked for
ExpectedChar(c) ==
    IF c = Code["="] THEN "expected '='"
    ELSE IF c = Code[","] THEN "expected ','"
    ELSE IF c = Code["n"] THEN "expected 'n'"
    ELSE "expected '@'"

opl_parse_char(line, s, c) ==
    IF Deref(line, s) = c THEN Ok(s + 1, 0)
    ELSE opl_error(ExpectedChar(c), s)

\* ------------------------------------------------------------- the state
VARIABLES
    scenario,           \* the stream that is read (never changes)
    file,               \* the part of the stream the reader has not pushed
    eof_pushed,         \* the reader has pushed the end-of-input chunk
    m_input_queue,      \* Queue<std::string>
    m_input_buffer,     \* PBFParser::m_input_buffer
    m_read_types,
    m_use_thread_pool,
    pc,                 \* where the framer is in PBFParser::operator()
    size,               \* the size the framer reads next
    parser_error,       \* the exception that ended the framer
    n_blobs,            \* data blobs framed so far
    futures,            \* shared states of all futures created so far
    m_queue,            \* Queue<std::future<Buffer>>: indices into futures
    enqueued,           \* every index ever pushed on m_queue, in order
    m_header_promise,
    header_retrieved,   \* m_header_promise.get_future() was called
    m_parser_thread,    \* valid() of the std::future<bool>
    cpc,                \* where the consumer is
    buffer_future,      \* the future the consumer has popped
    calls,              \* the outcome of every call the consumer finished
    maps,               \* the location indexes index1 and index2
    map_error,          \* what the last create_map call raised
    n_sets,             \* number of set() calls made
    last_set,           \* per index and id, the location of the last set()
    last_op,            \* the last operation made on an index
    noexcept_before,    \* get_noexcept of every id before switch_to_dense
    sorted_before,      \* the entries were in id order before switch_to_dense
    m_buffer,           \* the memory::Buffer opl_parse_line writes to
    m_buffer_before,    \* the buffer before the last opl_parse_line call
    opl_read_types,     \* the read_types given to opl_parse_line
    line_count,         \* number of lines given to opl_parse_line
    data,               \* the last line given to opl_parse_line
    returned,           \* what the last opl_parse_line call returned or raised
    section,            \* an N or M section
    parsed,             \* what parsing the section gave
    passed,             \* the NodeRefs every NodeRefSegment was made from
    segments,           \* the NodeRefSegments made so far
    queried,            \* the location given to to_left_of
    left,               \* what to_left_of returned
    fn_call,            \* the parsing function called and its arguments
    fn_result           \* what the parsing function returned or raised

pipelineVars ==
    << scenario, file, eof_pushed, m_input_queue, m_input_buffer,
       m_read_types, m_use_thread_pool, pc, size, parser_error, n_blobs,
       futures, m_queue, enqueued, m_header_promise, header_retrieved,
       m_parser_thread, cpc, buffer_future, calls >>

indexVars ==
    << maps, map_error, n_sets, last_set, last_op, noexcept_before,
       sorted_before >>

\* the state of the components that take no part in the PBF pipeline
oplVars ==
    << m_buffer, m_buffer_before, opl_read_types, line_count, data,
       returned >>

sectionVars == << section, parsed >>

segmentVars == << passed, segments, queried, left >>

callVars == << fn_call, fn_result >>

otherVars == << indexVars, oplVars, sectionVars, segmentVars, callVars >>

vars == << pipelineVars, otherVars >>

configVars == << scenario, m_read_types, m_use_thread_pool >>
readerVars == << file, eof_pushed >>
framerVars == << m_input_buffer, pc, size, parser_error, n_blobs >>
queueVars == << futures, m_queue, enqueued >>
consumerVars ==
    << header_retrieved, m_parser_thread, cpc, buffer_future, calls >>

\* ------------------------------------------------------- location index
undefined_coordinate == 2147483647
Location(x, y) == [x |-> x, y |-> y]
UndefinedLocation == Location(undefined_coordinate, undefined_coordinate)
location_matching_id(id) == Location(id, id)

\* the ids test_func_all sets, and the ids that are asked for
SetIds == {3, 12}
Ids == SetIds \cup {0, 100}
\* the values stored: the locations the test stores and the empty value
Locations == {location_matching_id(1), location_matching_id(2),
              UndefinedLocation}

DenseTypes == {"dense_mem_array", "dense_mmap_array", "dense_file_array"}
HashTypes == {"sparse_mem_table", "sparse_mem_map"}
SparseArrayTypes ==
    {"sparse_mem_array", "sparse_mem_compact_array", "sparse_mmap_array",
     "sparse_file_array"}
FlexTypes == {"flex_mem"}

\* the kinds of back-end: the types of one kind differ in where they keep
\* their storage
Dense == "dense"
Hash == "hash"
SparseArray == "sparse array"
FlexMem == "flex"
Dummy == "dummy"

\* the names MapFactory knows
map_types == DenseTypes \cup HashTypes \cup SparseArrayTypes \cup FlexTypes

\* the back-end the factory constructs for a registered name
MapClass(name) ==
    IF name \in DenseTypes THEN Dense
    ELSE IF name \in HashTypes THEN Hash
    ELSE IF name \in SparseArrayTypes THEN SparseArray
    ELSE FlexMem
\* the names handed to create_map
MapNames == map_types \cup {"", "does not exist"}

NoMap == [type |-> "none"]
NewMap(type, dense) ==
    [type |-> type, dense |-> dense, cells |-> <<>>, entries |-> <<>>,
     table |-> <<>>]

IsDenseNow(m) == m.type = Dense \/ (m.type = FlexMem /\ m.dense)
IsSparseNow(m) ==
    m.type = SparseArray \/ (m.type = FlexMem /\ ~m.dense)

Max(a, b) == IF a > b THEN a ELSE b

\* std::lower_bound over entries [first, first + count) comparing ids
RECURSIVE LowerBound(_, _, _, _)
LowerBound(entries, id, first, count) ==
    IF count = 0 THEN first
    ELSE LET step == count \div 2
             it == first + step
         IN  IF entries[it].id < id
             THEN LowerBound(entries, id, it + 1, count - step - 1)
             ELSE LowerBound(entries, id, first, step)

\* the entry a sparse array finds for id, 0 when it finds none
SparseFind(entries, id) ==
    LET it == LowerBound(entries, id, 1, Len(entries))
    IN  IF it > Len(entries) \/ entries[it].id # id THEN 0 ELSE it

NotFound == [found |-> FALSE, value |-> UndefinedLocation]
Found(value) == [found |-> TRUE, value |-> value]

\* get(id): the location, or not_found
MapGet(m, id) ==
    IF IsDenseNow(m)
    THEN IF id + 1 > Len(m.cells) \/ m.cells[id + 1] = UndefinedLocation
         THEN NotFound
         ELSE Found(m.cells[id + 1])
    ELSE IF IsSparseNow(m)
    THEN IF SparseFind(m.entries, id) = 0
         THEN NotFound
         ELSE Found(m.entries[SparseFind(m.entries, id)].value)
    ELSE IF m.type = Hash
    THEN IF id \in DOMAIN m.table THEN Found(m.table[id]) ELSE NotFound
    ELSE NotFound

\* get_noexcept(id): the location, or the undefined Location
MapGetNoexcept(m, id) ==
    IF IsDenseNow(m)
    THEN IF id + 1 > Len(m.cells) THEN UndefinedLocation
         ELSE m.cells[id + 1]
    ELSE MapGet(m, id).value

MapSize(m) ==
    IF IsDenseNow(m) THEN Len(m.cells)
    ELSE IF IsSparseNow(m) THEN Len(m.entries)
    ELSE IF m.type = Hash THEN Cardinality(DOMAIN m.table)
    ELSE 0

\* a dense array resized so that id is in range, the new cells undefined
DenseSet(cells, id, value) ==
    [i \in 1..Max(Len(cells), id + 1) |->
        IF i = id + 1 THEN value
        ELSE IF i <= Len(cells) THEN cells[i]
        ELSE UndefinedLocation]

MapSet(m, id, value) ==
    IF IsDenseNow(m) THEN [m EXCEPT !.cells = DenseSet(@, id, value)]
    ELSE IF IsSparseNow(m)
    THEN [m EXCEPT !.entries = Append(@, [id |-> id, value |-> value])]
    ELSE IF m.type = Hash
    THEN [m EXCEPT !.table = (id :> value) @@ @]
    ELSE m

\* the last entry of entries that has this id
RECURSIVE LastWith(_, _, _)
LastWith(entries, id, i) ==
    IF i = 0 THEN 0
    ELSE IF entries[i].id = id THEN i
    ELSE LastWith(entries, id, i - 1)

\* the entries ordered by id, of equal ids the one set last
RECURSIVE SortedFrom(_, _)
SortedFrom(entries, ids) ==
    IF ids = {} THEN <<>>
    ELSE LET id == CHOOSE i \in ids : \A j \in ids : i <= j
             last == LastWith(entries, id, Len(entries))
         IN  (IF last = 0 THEN <<>> ELSE << entries[last] >>)
             \o SortedFrom(entries, ids \ {id})

\* a sort() that leaves the entries as they are
MapNoSort(m) == m

MapSort(m) ==
    IF IsSparseNow(m) THEN [m EXCEPT !.entries = SortedFrom(@, Ids)] ELSE m

\* a clear() that drops nothing
MapKeep(m) == m

MapClear(m) == NewMap(m.type, m.dense)

\* the ids of the entries are strictly increasing
InIdOrder(entries) ==
    \A i \in 1..(Len(entries) - 1) : entries[i].id < entries[i + 1].id

\* the dense array that holds the values of sorted entries
RECURSIVE CopyToDense(_, _)
CopyToDense(entries, cells) ==
    IF entries = <<>> THEN cells
    ELSE CopyToDense(Tail(entries),
                     DenseSet(cells, Head(entries).id, Head(entries).value))

\* a switch_to_dense that allocates the dense array and copies nothing
MapSwitchEmpty(m) ==
    [m EXCEPT !.dense = TRUE, !.cells = <<>>, !.entries = <<>>]

\* FlexMem::switch_to_dense
MapSwitchToDense(m) ==
    [m EXCEPT !.dense = TRUE,
              !.cells = CopyToDense(SortedFrom(m.entries, Ids), <<>>),
              !.entries = <<>>]

\* index1 and index2 of the test
Slots == {"index1", "index2"}
NotSet == [set |-> FALSE, value |-> UndefinedLocation]
WasSet(value) == [set |-> TRUE, value |-> value]
NeverSet == [id \in Ids |-> NotSet]
NoOp == [slot |-> "none", op |-> "none", name |-> ""]
Op(slot, op, name) == [slot |-> slot, op |-> op, name |-> name]
AllUndefined == [id \in Ids |-> UndefinedLocation]
ErrMapFactoryEmpty == "Need non-empty map type name"
ErrMapFactoryUnknown == "Support for map type not compiled into this binary"

\* no location index exists
IndexUnused ==
    /\ maps = [slot \in Slots |-> NoMap]
    /\ map_error = NoErr
    /\ n_sets = 0
    /\ last_set = [slot \in Slots |-> NeverSet]
    /\ last_op = NoOp
    /\ noexcept_before = AllUndefined
    /\ sorted_before = TRUE

\* ------------------------------------------- OPL parser: the sections
WithVal(r, val) == [r EXCEPT !.val = val]

\* a run of decimal digits: val is value followed by the digits, n their
\* number
RECURSIVE ReadDigits(_, _, _, _)
ReadDigits(line, s, value, n) ==
    IF IsDigit(Deref(line, s))
    THEN ReadDigits(line, s + 1, value * 10 + (Deref(line, s) - Code["0"]),
                    n + 1)
    ELSE [s |-> s, val |-> value, n |-> n]

coordinate_precision == 10000000

\* the digits after the decimal point: the first seven count
RECURSIVE ReadFraction(_, _, _, _)
ReadFraction(line, s, value, scale) ==
    IF IsDigit(Deref(line, s))
    THEN ReadFraction(line, s + 1,
                      value + scale * (Deref(line, s) - Code["0"]),
                      scale \div 10)
    ELSE [s |-> s, val |-> value]

\* a value with its sign
Signed(negative, value) == IF negative THEN -value ELSE value

\* the fixed-point number of the integer part int and the fraction frac,
\* which starts at from; one of them has a digit
FixedPoint(s0, negative, int, frac, from) ==
    IF int.n = 0 /\ frac.s = from
    THEN Exception("invalid_location", "wrong format for coordinate", s0, 0)
    ELSE Ok(frac.s,
            Signed(negative, int.val * coordinate_precision + frac.val))

\* the coordinate behind its integer part int
Fraction(line, s0, negative, int) ==
    IF Deref(line, int.s) = Code["."]
    THEN FixedPoint(s0, negative, int,
                    ReadFraction(line, int.s + 1, 0,
                                 coordinate_precision \div 10),
                    int.s + 1)
    ELSE FixedPoint(s0, negative, int, [s |-> int.s, val |-> 0], int.s)

\* Location::set_lon_partial and set_lat_partial: an optional sign, an
\* integer part and an optional fraction, as a fixed-point number
str_to_coordinate(line, s0) ==
    IF Deref(line, s0) = Code["-"]
    THEN Fraction(line, s0, TRUE, ReadDigits(line, s0 + 1, 0, 0))
    ELSE Fraction(line, s0, FALSE, ReadDigits(line, s0, 0, 0))

\* Location::valid
LocationValid(location) ==
    /\ location.x \in (-180 * coordinate_precision)..
                      (180 * coordinate_precision)
    /\ location.y \in (-90 * coordinate_precision)..
                      (90 * coordinate_precision)

Tag(key, value) == [key |-> key, value |-> value]

\* the loop of opl_parse_tags; val is the tags the TagListBuilder has added
RECURSIVE opl_parse_tags_from(_, _, _)
RECURSIVE TagEquals(_, _, _)
RECURSIVE TagValue(_, _, _, _)
RECURSIVE TagAdded(_, _, _, _)
RECURSIVE TagNext(_, _, _)
opl_parse_tags_from(line, s, tags) ==
    TagEquals(line, tags, opl_parse_string(line, s, <<>>))

\* the loop behind opl_parse_string(&s, key), which gave key
TagEquals(line, tags, key) ==
    IF Failed(key) THEN WithVal(key, tags)
    ELSE TagValue(line, tags, key, opl_parse_char(line, key.s, Code["="]))

\* the loop behind opl_parse_char(&s, '='), which gave eq
TagValue(line, tags, key, eq) ==
    IF Failed(eq) THEN WithVal(eq, tags)
    ELSE TagAdded(line, tags, key, opl_parse_string(line, eq.s, <<>>))

\* the loop from builder.add_tag(key, value) on
TagAdded(line, tags, key, value) ==
    IF Failed(value) THEN WithVal(value, tags)
    ELSE IF IsSpace(Deref(line, value.s)) \/ Deref(line, value.s) = Nul
    THEN Ok(value.s, Append(tags, Tag(key.val, value.val)))
    ELSE TagNext(line, Append(tags, Tag(key.val, value.val)),
                 opl_parse_char(line, value.s, Code[","]))

\* the loop behind opl_parse_char(&s, ','), which gave comma
TagNext(line, added, comma) ==
    IF Failed(comma) THEN WithVal(comma, added)
    ELSE opl_parse_tags_from(line, comma.s, added)

opl_parse_tags(line, s) == opl_parse_tags_from(line, s, <<>>)

NodeRef(ref, location) == [ref |-> ref, location |-> location]

\* the location with the longitude lon and the latitude lat
WithLat(lon, lat) ==
    IF Failed(lat) THEN lat ELSE Ok(lat.s, Location(lon.val, lat.val))

\* the location of a way node behind its longitude lon
WithLon(line, lon) ==
    IF Failed(lon) THEN lon
    ELSE IF Deref(line, lon.s) # Code["y"]
    THEN Ok(lon.s, Location(lon.val, undefined_coordinate))
    ELSE WithLat(lon, str_to_coordinate(line, lon.s + 1))

\* the location of a way node: s is behind the id
WayNodeLocation(line, s) ==
    IF Deref(line, s) # Code["x"] THEN Ok(s, UndefinedLocation)
    ELSE WithLon(line, str_to_coordinate(line, s + 1))

\* the loop of opl_parse_way_nodes; val is the NodeRefs added
RECURSIVE opl_parse_way_nodes_from(_, _, _, _)
RECURSIVE WayNodeId(_, _, _, _)
RECURSIVE WayNodeRef(_, _, _, _)
RECURSIVE WayNodeAdded(_, _, _, _, _)
RECURSIVE WayNodeNext(_, _, _, _)
opl_parse_way_nodes_from(line, s, e, nodes) ==
    IF ~(s < e) THEN Ok(s, nodes)
    ELSE WayNodeId(line, e, nodes, opl_parse_char(line, s, Code["n"]))

\* the loop behind opl_parse_char(&s, 'n'), which gave n
WayNodeId(line, e, nodes, n) ==
    IF Failed(n) THEN WithVal(n, nodes)
    ELSE IF n.s = e THEN WithVal(opl_error("expected integer", n.s), nodes)
    ELSE WayNodeRef(line, e, nodes, opl_parse_id(line, n.s))

\* the loop behind opl_parse_id, which gave ref
WayNodeRef(line, e, nodes, ref) ==
    IF Failed(ref) THEN WithVal(ref, nodes)
    ELSE IF ref.s = e
    THEN Ok(ref.s, Append(nodes, NodeRef(ref.val, UndefinedLocation)))
    ELSE WayNodeAdded(line, e, nodes, ref, WayNodeLocation(line, ref.s))

\* the loop from builder.add_node_ref(ref, location) on
WayNodeAdded(line, e, nodes, ref, location) ==
    IF Failed(location) THEN WithVal(location, nodes)
    ELSE IF location.s = e
    THEN Ok(location.s, Append(nodes, NodeRef(ref.val, location.val)))
    ELSE WayNodeNext(line, e,
                     Append(nodes, NodeRef(ref.val, location.val)),
                     opl_parse_char(line, location.s, Code[","]))

\* the loop behind opl_parse_char(&s, ','), which gave comma
WayNodeNext(line, e, added, comma) ==
    IF Failed(comma) THEN WithVal(comma, added)
    ELSE opl_parse_way_nodes_from(line, comma.s, e, added)

opl_parse_way_nodes(line, s, e) ==
    IF s = e THEN Ok(s, <<>>) ELSE opl_parse_way_nodes_from(line, s, e, <<>>)

\* osmium::char_to_item_type for the types a member can have
IsMemberType(c) == c \in {Code["n"], Code["w"], Code["r"]}
Member(type, ref, role) == [type |-> type, ref |-> ref, role |-> role]

\* the loop of opl_parse_relation_members; val is the members added
RECURSIVE opl_parse_relation_members_from(_, _, _, _)
RECURSIVE MemberAt(_, _, _, _, _)
RECURSIVE MemberRole(_, _, _, _, _, _)
RECURSIVE MemberAdded(_, _, _, _, _, _)
RECURSIVE MemberNext(_, _, _, _)
opl_parse_relation_members_from(line, s, e, members) ==
    IF ~(s < e) THEN Ok(s, members)
    ELSE IF ~IsMemberType(Deref(line, s))
    THEN WithVal(opl_error("unknown object type", s), members)
    ELSE IF s + 1 = e
    THEN WithVal(opl_error("expected integer", s + 1), members)
    ELSE MemberAt(line, e, members, Deref(line, s), opl_parse_id(line, s + 1))

\* the loop behind opl_parse_id, which gave ref
MemberAt(line, e, members, type, ref) ==
    IF Failed(ref) THEN WithVal(ref, members)
    ELSE MemberRole(line, e, members, type, ref,
                    opl_parse_char(line, ref.s, Code["@"]))

\* the loop behind opl_parse_char(&s, '@'), which gave at
MemberRole(line, e, members, type, ref, at) ==
    IF Failed(at) THEN WithVal(at, members)
    ELSE IF at.s = e
    THEN Ok(at.s, Append(members, Member(type, ref.val, <<>>)))
    ELSE MemberAdded(line, e, members, type, ref,
                     opl_parse_string(line, at.s, <<>>))

\* the loop from builder.add_member(type, ref, role) on
MemberAdded(line, e, members, type, ref, role) ==
    IF Failed(role) THEN WithVal(role, members)
    ELSE IF role.s = e
    THEN Ok(role.s, Append(members, Member(type, ref.val, role.val)))
    ELSE MemberNext(line, e,
                    Append(members, Member(type, ref.val, role.val)),
                    opl_parse_char(line, role.s, Code[","]))

\* the loop behind opl_parse_char(&s, ','), which gave comma
MemberNext(line, e, added, comma) ==
    IF Failed(comma) THEN WithVal(comma, added)
    ELSE opl_parse_relation_members_from(line, comma.s, e, added)

opl_parse_relation_members(line, s, e) ==
    IF s = e THEN Ok(s, <<>>)
    ELSE opl_parse_relation_members_from(line, s, e, <<>>)

\* --------------------------------------------- OPL parser: the entities
\* what the builder of an OSMObject has written when it is constructed
NewObject(type) ==
    [type |-> type, id |-> 0, version |-> 0, visible |-> TRUE,
     changeset |-> 0, timestamp |-> NoTimestamp, uid |-> 0, user |-> <<>>,
     tags |-> <<>>, location |-> UndefinedLocation, nodes |-> <<>>,
     members |-> <<>>]

\* an osmium::Box that was never extended
UndefinedBox ==
    [bottom_left |-> UndefinedLocation, top_right |-> UndefinedLocation]

\* Box::extend with two valid locations on an undefined box
BoxOf(location1, location2) ==
    [bottom_left |-> Location(Min(location1.x, location2.x),
                              Min(location1.y, location2.y)),
     top_right |-> Location(Max(location1.x, location2.x),
                            Max(location1.y, location2.y))]

\* what the ChangesetBuilder has written when it is constructed
NewChangeset ==
    [type |-> "changeset", id |-> 0, num_changes |-> 0,
     created_at |-> NoTimestamp, closed_at |-> NoTimestamp,
     num_comments |-> 0, uid |-> 0, user |-> <<>>, tags |-> <<>>,
     bounds |-> UndefinedBox]

\* the locals of a parsing function next to its builder b
Locals(b) ==
    [b |-> b, user |-> <<>>, tags_begin |-> 0, location |-> UndefinedLocation,
     location2 |-> UndefinedLocation, begin |-> 0, end |-> 0]

\* a case that sets a field of the builder and clears the user
SetFieldAndClear(r, st, field) ==
    IF Failed(r) THEN WithVal(r, st)
    ELSE Ok(r.s, [st EXCEPT !.b = [st.b EXCEPT ![field] = r.val],
                            !.user = << >>])

\* a case of the switch that sets a field of the builder from a parser's
\* result r
SetField(r, st, field) ==
    IF Failed(r) THEN WithVal(r, st)
    ELSE Ok(r.s, [st EXCEPT !.b = [st.b EXCEPT ![field] = r.val]])

\* case 'u'
ParseUser(line, s, st) ==
    LET r == opl_parse_string(line, s, st.user)
    IN  IF Failed(r) THEN WithVal(r, st)
        ELSE Ok(r.s, [st EXCEPT !.user = r.val])

\* case 'T'
SkipTags(line, s, st) ==
    IF opl_non_empty(line, s)
    THEN Ok(opl_skip_section(line, s), [st EXCEPT !.tags_begin = s])
    ELSE Ok(s, st)

\* case 'N' and case 'M'
SkipList(line, s, st) ==
    Ok(opl_skip_section(line, s),
       [st EXCEPT !.begin = s, !.end = opl_skip_section(line, s)])

\* cases 'x', 'y', 'X' and 'Y'
ParseCoordinate(line, s, st, location, axis) ==
    LET r == str_to_coordinate(line, s)
    IN  IF ~opl_non_empty(line, s) THEN Ok(s, st)
        ELSE IF Failed(r) THEN WithVal(r, st)
        ELSE Ok(r.s, [st EXCEPT ![location] =
                                    [st[location] EXCEPT ![axis] = r.val]])

UnknownAttribute(s, st) == WithVal(opl_error("unknown attribute", s - 1), st)

\* the cases of the switch that node, way and relation share; s is behind
\* the letter c
ObjectAttribute(c, line, s, st) ==
    IF c = Code["v"] THEN SetField(opl_parse_version(line, s), st, "version")
    ELSE IF c = Code["d"]
    THEN SetField(opl_parse_visible(line, s), st, "visible")
    ELSE IF c = Code["c"]
    THEN SetField(opl_parse_changeset_id(line, s), st, "changeset")
    ELSE IF c = Code["t"]
    THEN SetField(opl_parse_timestamp(line, s), st, "timestamp")
    ELSE IF c = Code["i"] THEN SetField(opl_parse_uid(line, s), st, "uid")
    ELSE IF c = Code["u"] THEN ParseUser(line, s, st)
    ELSE IF c = Code["T"] THEN SkipTags(line, s, st)
    ELSE UnknownAttribute(s, st)

NodeAttribute(c, line, s, st) ==
    IF c = Code["x"] THEN ParseCoordinate(line, s, st, "location", "x")
    ELSE IF c = Code["y"] THEN ParseCoordinate(line, s, st, "location", "y")
    ELSE ObjectAttribute(c, line, s, st)

WayAttribute(c, line, s, st) ==
    IF c = Code["N"] THEN SkipList(line, s, st)
    ELSE ObjectAttribute(c, line, s, st)

RelationAttribute(c, line, s, st) ==
    IF c = Code["M"] THEN SkipList(line, s, st)
    ELSE ObjectAttribute(c, line, s, st)

ChangesetAttribute(c, line, s, st) ==
    IF c = Code["k"]
    THEN SetField(opl_parse_int(line, s, num_changes_type), st,
                  "num_changes")
    ELSE IF c = Code["s"]
    THEN SetField(opl_parse_timestamp(line, s), st, "created_at")
    ELSE IF c = Code["e"]
    THEN SetField(opl_parse_timestamp(line, s), st, "closed_at")
    ELSE IF c = Code["d"]
    THEN SetField(opl_parse_int(line, s, num_comments_type), st,
                  "num_comments")
    ELSE IF c = Code["i"] THEN SetField(opl_parse_uid(line, s), st, "uid")
    ELSE IF c = Code["u"] THEN ParseUser(line, s, st)
    ELSE IF c = Code["x"]
    THEN ParseCoordinate(line, s, st, "location", "x")
    ELSE IF c = Code["y"]
    THEN ParseCoordinate(line, s, st, "location", "y")
    ELSE IF c = Code["X"]
    THEN ParseCoordinate(line, s, st, "location2", "x")
    ELSE IF c = Code["Y"]
    THEN ParseCoordinate(line, s, st, "location2", "y")
    ELSE IF c = Code["T"] THEN SkipTags(line, s, st)
    ELSE UnknownAttribute(s, st)

Attribute(type, c, line, s, st) ==
    IF type = "node" THEN NodeAttribute(c, line, s, st)
    ELSE IF type = "way" THEN WayAttribute(c, line, s, st)
    ELSE IF type = "relation" THEN RelationAttribute(c, line, s, st)
    ELSE ChangesetAttribute(c, line, s, st)

\* the while (**data) loop of the four parsing functions: val is the
\* locals, also when the loop fails
RECURSIVE ParseAttributes(_, _, _, _)
RECURSIVE AfterSpace(_, _, _, _)
RECURSIVE AfterAttribute(_, _, _)
ParseAttributes(type, line, s, st) ==
    IF Deref(line, s) = Nul THEN Ok(s, st)
    ELSE AfterSpace(type, line, opl_parse_space(line, s), st)

\* the loop from the result space of opl_parse_space on
AfterSpace(type, line, space, st) ==
    IF Failed(space) THEN WithVal(space, st)
    ELSE IF Deref(line, space.s) = Nul THEN Ok(space.s, st)
    ELSE AfterAttribute(type, line,
             Attribute(type, Deref(line, space.s), line, space.s + 1, st))

\* the loop from the result r of a case of the switch on
AfterAttribute(type, line, r) ==
    IF Failed(r) THEN r ELSE ParseAttributes(type, line, r.s, r.val)

\* a parsing function from its builder b0 and the result id of parsing the
\* id to the end of its loop
ParseEntity(type, line, b0, id) ==
    IF Failed(id) THEN WithVal(id, Locals(b0))
    ELSE ParseAttributes(type, line, id.s,
                         Locals([b0 EXCEPT !.id = id.val]))

\* what the builders have written when the loop has failed with r
Unfinished(r) == WithVal(r, r.val.b)

\* if (location.valid()) builder.set_location(location)
Located(st) ==
    IF LocationValid(st.location)
    THEN [st.b EXCEPT !.location = st.location]
    ELSE st.b

\* the bounds of a changeset
Bounded(st) ==
    IF LocationValid(st.location) /\ LocationValid(st.location2)
    THEN [st.b EXCEPT !.bounds = BoxOf(st.location, st.location2)]
    ELSE st.b

\* builder.add_user(user)
WithUser(b, st) == [b EXCEPT !.user = st.user]

\* a sub-builder has added list as field of the entity b, or has failed
\* after adding a part of it
Added(list, s, b, field) ==
    WithVal([list EXCEPT !.s = s], [b EXCEPT ![field] = list.val])

\* if (tags_begin) opl_parse_tags(...), after the loop has ended with r
AddTags(line, r, b) ==
    IF r.val.tags_begin = 0 THEN Ok(r.s, b)
    ELSE Added(opl_parse_tags(line, r.val.tags_begin), r.s, b, "tags")

\* opl_parse_way_nodes(nodes_begin, nodes_end, ...) when the tags are added
AddNodes(line, r, tagged) ==
    IF Failed(tagged) THEN tagged
    ELSE Added(opl_parse_way_nodes(line, r.val.begin, r.val.end), r.s,
               tagged.val, "nodes")

\* if (members_begin != members_end) opl_parse_relation_members(...)
AddMembers(line, r, tagged) ==
    IF Failed(tagged) \/ r.val.begin = r.val.end THEN tagged
    ELSE Added(opl_parse_relation_members(line, r.val.begin, r.val.end),
               r.s, tagged.val, "members")

\* the parsing functions behind their loops, which ended with r: val is
\* what the builders have written to the buffer, also on failure
NodeFrom(line, r) ==
    IF Failed(r) THEN Unfinished(r)
    ELSE AddTags(line, r, WithUser(Located(r.val), r.val))

WayFrom(line, r) ==
    IF Failed(r) THEN Unfinished(r)
    ELSE AddNodes(line, r, AddTags(line, r, WithUser(r.val.b, r.val)))

RelationFrom(line, r) ==
    IF Failed(r) THEN Unfinished(r)
    ELSE AddMembers(line, r, AddTags(line, r, WithUser(r.val.b, r.val)))

ChangesetFrom(line, r) ==
    IF Failed(r) THEN Unfinished(r)
    ELSE AddTags(line, r, WithUser(Bounded(r.val), r.val))

opl_parse_node(line, s) ==
    NodeFrom(line, ParseEntity("node", line, NewObject("node"),
                               opl_parse_id(line, s)))

opl_parse_way(line, s) ==
    WayFrom(line, ParseEntity("way", line, NewObject("way"),
                              opl_parse_id(line, s)))

opl_parse_relation(line, s) ==
    RelationFrom(line, ParseEntity("relation", line, NewObject("relation"),
                                   opl_parse_id(line, s)))

opl_parse_changeset(line, s) ==
    ChangesetFrom(line, ParseEntity("changeset", line, NewChangeset,
                                    opl_parse_changeset_id(line, s)))

\* ------------------------------------------------- OPL parser: the lines
\* osmium::osm_entity_bits::all
all == {"node", "way", "relation", "changeset"}

\* memory::Buffer: the items written and how many of them are committed
NewBuffer == [written |-> <<>>, committed |-> 0]
Write(buf, item) == [buf EXCEPT !.written = Append(@, item)]
Commit(buf) == [buf EXCEPT !.committed = Len(buf.written)]

\* the cases of the switch on the first char of a line that parse an entity
EntityType(c) ==
    IF c = Code["n"] THEN "node"
    ELSE IF c = Code["w"] THEN "way"
    ELSE IF c = Code["r"] THEN "relation"
    ELSE IF c = Code["c"] THEN "changeset"
    ELSE "none"

opl_parse_entity(type, line, s) ==
    IF type = "node" THEN opl_parse_node(line, s)
    ELSE IF type = "way" THEN opl_parse_way(line, s)
    ELSE IF type = "relation" THEN opl_parse_relation(line, s)
    ELSE opl_parse_changeset(line, s)

\* opl_parse_line returns ret and leaves the buffer as buf
Returned(ret, buf) ==
    [ret |-> ret, err |-> NoErr, kind |-> "", line |-> 0, column |-> 0,
     buffer |-> buf]

\* a position that counts the chars up to and with the one data points to
set_pos_from_one(e, l) ==
    [ret |-> FALSE, err |-> e.err, kind |-> e.kind, line |-> l,
     column |-> e.data]

\* opl_error::set_pos in the catch block: data - start_of_line
set_pos(e, l) ==
    [ret |-> FALSE, err |-> e.err, kind |-> e.kind, line |-> l,
     column |-> IF e.data # 0 THEN e.data - 1 ELSE 0]

\* an exception leaves opl_parse_line: only an opl_error gets a position
Thrown(e, line_count_arg, buf) ==
    [buffer |-> buf] @@
    (IF e.kind = "opl_error" THEN set_pos(e, line_count_arg)
     ELSE [ret |-> FALSE, err |-> e.err, kind |-> e.kind, line |-> 0,
           column |-> 0])

\* a parsing function has ended with r: buffer.commit() and return true,
\* or the exception
Parsed(r, line_count_arg, buf) ==
    IF Failed(r) THEN Thrown(r, line_count_arg, Write(buf, r.val))
    ELSE Returned(TRUE, Commit(Write(buf, r.val)))

opl_parse_line(line_count_arg, line, buf, read_types) ==
    LET c == Deref(line, 1)
    IN  IF c = Nul \/ c = Code["#"] THEN Returned(FALSE, buf)
        ELSE IF EntityType(c) = "none"
        THEN Thrown(opl_error("unknown type", 1), line_count_arg, buf)
        ELSE IF EntityType(c) \notin read_types THEN Returned(FALSE, buf)
        ELSE Parsed(opl_parse_entity(EntityType(c), line, 2),
                    line_count_arg, buf)

\* -------------------------------------------------- OPL parser: inputs
\* a field of a line or an item of a list: its text and, when it is not
\* well-formed, the offset in text of the char at which parsing fails
Good(t) == [text |-> Str(t), bad |-> FALSE, at |-> 0]
Bad(t, at) == [text |-> Str(t), bad |-> TRUE, at |-> at]

ATimestamp ==
    << "t", "2", "0", "1", "6", "-", "0", "1", "-", "0", "1", "T", "0", "0",
       ":", "0", "0", ":", "0", "0", "Z" >>

ObjectFields ==
    { Good(<< "v", "1" >>), Good(<< "d", "D" >>), Good(ATimestamp),
      Good(<< "i", "7" >>), Good(<< "u", "a" >>),
      Good(<< "T", "k", "=", "v" >>), Bad(<< "v" >>, 1),
      Bad(<< "t", "2", "0", "1", "6" >>, 1),
      Bad(<< "u", "%", "g", "%" >>, 2),
      Bad(<< "T", "k", "=", "%", "g", "%" >>, 4),
      Bad(<< "q", "1" >>, 0) }

FieldsOf(type) ==
    IF type = "node"
    THEN ObjectFields \cup { Good(<< "x", "1", ".", "5" >>),
                             Good(<< "y", "2" >>) }
    ELSE IF type = "way"
    THEN ObjectFields
         \cup { Good(<< "N", "n", "1", ",", "n", "2", "x", "1", "y", "2" >>),
                Bad(<< "N", "n", "1", ",", "w", "2" >>, 4) }
    ELSE IF type = "relation"
    THEN ObjectFields
         \cup { Good(<< "M", "n", "1", "@", "a", ",", "w", "2", "@" >>),
                Bad(<< "M", "n", "1" >>, 3) }
    ELSE { Good(<< "k", "1" >>), Good(<< "d", "2" >>), Good(<< "u", "a" >>),
           Good(<< "x", "1" >>), Good(<< "y", "2" >>), Good(<< "X", "3" >>),
           Good(<< "Y", "4" >>), Good(<< "T", "k", "=", "v" >>),
           Bad(<< "u", "%", "g", "%" >>, 2), Bad(<< "q", "1" >>, 0) }

\* no field is twice in a line
Different(f) == \A i, j \in DOMAIN f : i # j => f[i] # f[j]

\* a line: its type char with the id, and its fields
Line(head, line_fields) == [head |-> Str(head), fields |-> line_fields]
NoLine == Line(<< >>, << >>)

\* the line of an entity with id 1
TypeChars == { Code["n"], Code["w"], Code["r"], Code["c"] }
EntityLine(c, f) == [head |-> << c, Code["1"] >>, fields |-> f]

\* lines without an entity: empty, a comment, of an unknown type
OtherLines ==
    { NoLine, Line(<< "#", "n", "1" >>, << >>), Line(<< "x", "1" >>, << >>) }

\* the lines that follow the first one
NextLines ==
    { Line(<< "n", "2" >>, << Good(<< "v", "1" >>) >>),
      Line(<< "r", "3" >>, << >>),
      Line(<< "w", "4" >>, << Bad(<< "N", "n", "1", ",", "w", "2" >>, 4),
                              Good(<< "v", "1" >>) >>) }

\* the chars of a line: the fields follow the head after a space each
RECURSIVE Joined(_, _)
Joined(items, separator) ==
    IF items = << >> THEN << >>
    ELSE IF Len(items) = 1 THEN items[1].text
    ELSE items[1].text \o << separator >> \o Joined(Tail(items), separator)

Text(l) ==
    IF l.fields = << >> THEN l.head
    ELSE l.head \o << Code[" "] >> \o Joined(l.fields, Code[" "])

\* the offset in Text(l) of field i
RECURSIVE FieldStart(_, _)
FieldStart(l, i) ==
    IF i = 1 THEN Len(l.head) + 1
    ELSE FieldStart(l, i - 1) + Len(l.fields[i - 1].text) + 1

\* the items of an N section and of an M section, with what a well-formed
\* one stands for
NodeItem(t, ref, location) == Good(t) @@ [val |-> NodeRef(ref, location)]
MemberItem(t, ref, role) ==
    Good(t) @@ [val |-> Member(Code[t[1]], ref, Str(role))]
NodeItems ==
    { NodeItem(<< "n", "1" >>, 1, UndefinedLocation),
      NodeItem(<< "n", "2", "x", "1", "y", "2" >>, 2,
               Location(coordinate_precision, 2 * coordinate_precision)),
      NodeItem(<< "n", "3", "x", "1", ".", "5", "y", "-", "2" >>, 3,
               Location(15000000, -2 * coordinate_precision)),
      Bad(<< >>, 0), Bad(<< "w", "1" >>, 0), Bad(<< "n" >>, 1),
      Bad(<< "n", "x", "1" >>, 1) }
MemberItems ==
    { MemberItem(<< "n", "1", "@", "a" >>, 1, << "a" >>),
      MemberItem(<< "w", "2", "@" >>, 2, << >>),
      MemberItem(<< "r", "3", "@", "b", "c" >>, 3, << "b", "c" >>),
      Bad(<< >>, 0), Bad(<< "a", "1", "@", "a" >>, 0),
      Bad(<< "n", "@", "a" >>, 1), Bad(<< "n", "1" >>, 2) }

ListsOf(S, n) == UNION { [1..k -> S] : k \in 0..n }
Sections ==
    { [kind |-> "N", items |-> l] : l \in ListsOf(NodeItems, MaxItems) }
    \cup { [kind |-> "M", items |-> l] : l \in ListsOf(MemberItems, MaxItems) }
NoSection == [kind |-> "", items |-> << >>]
Unparsed == [err |-> "unparsed"]

\* --------------------------------------------------------- area segments
\* the largest coordinate of the locations segments are compared on
MaxCoord == 1
\* the largest coordinate of the locations to_left_of is asked about
MaxPoint == 2

\* osmium::Location compares by x, then by y
LocationEq(a, b) == a.x = b.x /\ a.y = b.y
LocationLess(a, b) == a.x < b.x \/ (a.x = b.x /\ a.y < b.y)

swap_locations(segment) ==
    [segment EXCEPT !.m_first = segment.m_second,
                    !.m_second = segment.m_first]

\* a constructor that keeps the order of its arguments
NodeRefSegmentAsGiven(nr1, nr2, role, way) ==
    [m_first |-> nr1, m_second |-> nr2, m_role |-> role, m_way |-> way]

NodeRefSegment(nr1, nr2, role, way) ==
    IF LocationLess(nr2.location, nr1.location)
    THEN swap_locations(NodeRefSegmentAsGiven(nr1, nr2, role, way))
    ELSE NodeRefSegmentAsGiven(nr1, nr2, role, way)

first(segment) == segment.m_first
second(segment) == segment.m_second

\* std::minmax(a, b, comp) with comp comparing y: (b, a) if b.y < a.y,
\* (a, b) otherwise
MinMaxByY(a, b) == IF b.y < a.y THEN << b, a >> ELSE << a, b >>

\* the last statement of to_left_of, in 64 bit integers
CrossProduct(ax, bx, lx, ay, by, ly) ==
    ((bx - ax) * (ly - ay)) - ((by - ay) * (lx - ax))

\* to_left_of with the comparison at its end the other way round
to_left_of_mirrored(segment, location) ==
    IF \/ LocationEq(first(segment).location, location)
       \/ LocationEq(second(segment).location, location)
    THEN FALSE
    ELSE LET mm == MinMaxByY(first(segment).location,
                             second(segment).location)
         IN  IF \/ mm[1].y >= location.y
                \/ mm[2].y < location.y
                \/ first(segment).location.x > location.x
             THEN FALSE
             ELSE CrossProduct(mm[1].x, mm[2].x, location.x,
                               mm[1].y, mm[2].y, location.y) >= 0

\* to_left_of with a strict comparison at its end
to_left_of_strict(segment, location) ==
    IF \/ LocationEq(first(segment).location, location)
       \/ LocationEq(second(segment).location, location)
    THEN FALSE
    ELSE LET mm == MinMaxByY(first(segment).location,
                             second(segment).location)
         IN  IF \/ mm[1].y >= location.y
                \/ mm[2].y < location.y
                \/ first(segment).location.x > location.x
             THEN FALSE
             ELSE CrossProduct(mm[1].x, mm[2].x, location.x,
                               mm[1].y, mm[2].y, location.y) < 0

to_left_of(segment, location) ==
    IF \/ LocationEq(first(segment).location, location)
       \/ LocationEq(second(segment).location, location)
    THEN FALSE
    ELSE LET mm == MinMaxByY(first(segment).location,
                             second(segment).location)
         IN  IF \/ mm[1].y >= location.y
                \/ mm[2].y < location.y
                \/ first(segment).location.x > location.x
             THEN FALSE
             ELSE CrossProduct(mm[1].x, mm[2].x, location.x,
                               mm[1].y, mm[2].y, location.y) <= 0

\* operator== of two segments
SegmentEq(lhs, rhs) ==
    /\ LocationEq(first(lhs).location, first(rhs).location)
    /\ LocationEq(second(lhs).location, second(rhs).location)

\* an operator< that looks at the first locations only
SegmentLessByFirst(lhs, rhs) ==
    LocationLess(first(lhs).location, first(rhs).location)

\* operator< of two segments
SegmentLess(lhs, rhs) ==
    \/ /\ LocationEq(first(lhs).location, first(rhs).location)
       /\ LocationLess(second(lhs).location, second(rhs).location)
    \/ LocationLess(first(lhs).location, first(rhs).location)

\* the locations segments are made of when they are compared
GridLocations == { Location(x, y) : x \in 0..MaxCoord, y \in 0..MaxCoord }

\* the segment (0,0)-(10,10) and the locations it is asked about
FarEnd == Location(10, 10)
OnSegment == Location(5, 5)
AboveSegment == Location(5, 6)
BelowSegment == Location(5, 4)
BeforeSegment == Location(0 - 1, 5)

\* the locations of the segments to_left_of is called on
EndLocations ==
    { Location(x, y) : x \in 0..MaxPoint, y \in 0..MaxPoint } \cup { FarEnd }

\* the locations to_left_of is asked about
AskedLocations ==
    { Location(x, y) : x \in 0..MaxPoint, y \in 0..MaxPoint }
        \cup { OnSegment, AboveSegment, BelowSegment, BeforeSegment }

\* the widths of the integers, scaled down: a coordinate (int32_t) is in
\* -(CoordMax + 1)..CoordMax, and an int64_t, which has twice its bits, is
\* in -(AccMax + 1)..AccMax
CoordMax == 3
AccMax == (2 * (CoordMax + 1) * (CoordMax + 1)) - 1

FitsInt64(v) == (0 - AccMax) - 1 <= v /\ v <= AccMax

\* all locations with coordinates of the scaled width
WideLocations ==
    { Location(x, y) : x \in ((0 - CoordMax) - 1)..CoordMax,
                       y \in ((0 - CoordMax) - 1)..CoordMax }

\* to_left_of gets as far as its last statement
ReachesCrossProduct(segment, location) ==
    /\ ~LocationEq(first(segment).location, location)
    /\ ~LocationEq(second(segment).location, location)
    /\ LET mm == MinMaxByY(first(segment).location,
                           second(segment).location)
       IN  ~(\/ mm[1].y >= location.y
             \/ mm[2].y < location.y
             \/ first(segment).location.x > location.x)

\* every value computed by the last statement of to_left_of is an int64_t
CrossProductFits(ax, bx, lx, ay, by, ly) ==
    /\ FitsInt64(bx - ax)
    /\ FitsInt64(ly - ay)
    /\ FitsInt64(by - ay)
    /\ FitsInt64(lx - ax)
    /\ FitsInt64((bx - ax) * (ly - ay))
    /\ FitsInt64((by - ay) * (lx - ax))
    /\ FitsInt64(CrossProduct(ax, bx, lx, ay, by, ly))

\* no signed overflow happens in to_left_of
NoOverflow(segment, location) ==
    ReachesCrossProduct(segment, location) =>
        LET mm == MinMaxByY(first(segment).location,
                            second(segment).location)
        IN  CrossProductFits(mm[1].x, mm[2].x, location.x,
                             mm[1].y, mm[2].y, location.y)

\* the segments one state compares
Names == { "s", "t", "u" }

NotAsked == [called |-> FALSE, result |-> FALSE]

NoCall == [fn |-> "none", text |-> <<>>]
NoResult == Ok(0, 0)

CallUnused ==
    /\ fn_call = NoCall
    /\ fn_result = NoResult

SegmentUnused ==
    /\ passed = <<>>
    /\ segments = <<>>
    /\ queried = UndefinedLocation
    /\ left = NotAsked

OplUnused ==
    /\ m_buffer = NewBuffer
    /\ m_buffer_before = NewBuffer
    /\ opl_read_types = all
    /\ line_count = 0
    /\ data = NoLine
    /\ returned = Returned(FALSE, NewBuffer)

SectionUnused ==
    /\ section = NoSection
    /\ parsed = Unparsed

Init ==
    /\ IndexUnused
    /\ OplUnused
    /\ SectionUnused
    /\ SegmentUnused
    /\ CallUnused
    /\ scenario \in Scenarios
    /\ file = ScenarioStream(scenario)
    /\ eof_pushed = FALSE
    /\ m_input_queue = <<>>
    /\ m_input_buffer = <<>>
    /\ m_read_types \in ReadTypes
    /\ m_use_thread_pool \in BOOLEAN
    /\ pc = "header_size"
    /\ size = 0
    /\ parser_error = NoErr
    /\ n_blobs = 0
    /\ futures = <<>>
    /\ m_queue = <<>>
    /\ enqueued = <<>>
    /\ m_header_promise = [set |-> FALSE, header |-> DefaultHeader]
    /\ header_retrieved = FALSE
    /\ m_parser_thread = TRUE
    /\ cpc = "idle"
    /\ buffer_future = 0
    /\ calls = <<>>

\* ------------------------------------------------------ upstream reader
\* pushes the stream in chunks of any size, then the empty chunk
ReaderPush ==
    /\ ~eof_pushed
    /\ Len(m_input_queue) < max_input_queue_size
    /\ IF file = <<>>
       THEN /\ m_input_queue' = Append(m_input_queue, <<>>)
            /\ eof_pushed' = TRUE
            /\ file' = file
       ELSE \E k \in 1..Min(MaxChunk, Len(file)) :
                /\ m_input_queue' = Append(m_input_queue, SubSeq(file, 1, k))
                /\ file' = SubSeq(file, k + 1, Len(file))
                /\ eof_pushed' = FALSE
    /\ UNCHANGED << otherVars, configVars, framerVars, queueVars, m_header_promise,
                    consumerVars >>

\* --------------------------------------------------------------- framer
InHeaderBlob == pc \in {"header_size", "header_blobheader", "header_blob"}
ReadsSize == pc \in {"header_size", "data_size"}
ReadsBlobHeader == pc \in {"header_blobheader", "data_blobheader"}
IsReading == ReadsSize \/ ReadsBlobHeader \/ pc \in {"header_blob", "data_blob"}

\* the size argument of the read_from_input_queue call the framer is in
Wanted == IF ReadsSize THEN SizeOfUint32 ELSE size

\* the promise_keeper of parse_header_blob fulfils the promise with the
\* header it holds when parse_header_blob is left
KeepPromise(header) ==
    m_header_promise' = [set |-> TRUE, header |-> header]

\* an exception leaves PBFParser::operator() of a parse_header_blob that has
\* no promise_keeper: the header promise stays as it is
ThrowNoKeeper(err) ==
    /\ pc' = "error"
    /\ parser_error' = err
    /\ UNCHANGED m_header_promise

\* an exception leaves PBFParser::operator()
Throw(err) ==
    /\ pc' = "error"
    /\ parser_error' = err
    /\ IF InHeaderBlob
       THEN KeepPromise(DefaultHeader)
       ELSE UNCHANGED m_header_promise

\* read_blob_header_size_from_file returned 0, so
\* check_type_and_get_blob_size returns 0
BlobSizeZero ==
    /\ pc' = IF pc = "header_size" THEN "header_blob" ELSE "sentinel"
    /\ size' = 0
    /\ UNCHANGED << parser_error, m_header_promise >>

\* one turn of the loop of read_from_input_queue
FramerWaitAndPop ==
    /\ IsReading
    /\ Len(m_input_buffer) < Wanted
    /\ m_input_queue # <<>>
    /\ m_input_queue' = Tail(m_input_queue)
    /\ LET new_data == Head(m_input_queue)
       IN  IF new_data = <<>>
           THEN /\ UNCHANGED m_input_buffer
                /\ IF ReadsSize
                   THEN BlobSizeZero
                   ELSE Throw(ErrTruncated) /\ UNCHANGED size
           ELSE /\ m_input_buffer' = m_input_buffer \o new_data
                /\ UNCHANGED << pc, size, parser_error, m_header_promise >>
    /\ UNCHANGED << otherVars, configVars, readerVars, n_blobs, queueVars, consumerVars >>

read_blob_header_size_from_file ==
    /\ ReadsSize
    /\ Len(m_input_buffer) >= SizeOfUint32
    /\ m_input_buffer' = TakeRest(m_input_buffer, SizeOfUint32)
    /\ LET input_data == TakeOutput(m_input_buffer, SizeOfUint32)
           blob_header_size == Ntohl(input_data)
       IN  IF blob_header_size > max_blob_header_size
           THEN Throw(ErrHeaderSize) /\ UNCHANGED size
           ELSE IF blob_header_size = 0
           THEN BlobSizeZero
           ELSE /\ pc' = IF pc = "header_size" THEN "header_blobheader"
                                               ELSE "data_blobheader"
                /\ size' = blob_header_size
                /\ UNCHANGED << parser_error, m_header_promise >>
    /\ UNCHANGED << otherVars, configVars, readerVars, m_input_queue, n_blobs,
                    queueVars, consumerVars >>

check_type_and_get_blob_size ==
    /\ ReadsBlobHeader
    /\ Len(m_input_buffer) >= size
    /\ m_input_buffer' = TakeRest(m_input_buffer, size)
    /\ LET blob_header == TakeOutput(m_input_buffer, size)
           expected_type == IF pc = "header_blobheader" THEN OSMHeader
                                                        ELSE OSMData
           r == decode_blob_header(blob_header, expected_type)
       IN  IF r.err # NoErr
           THEN Throw(r.err) /\ UNCHANGED size
           ELSE /\ pc' = IF pc = "header_blobheader" THEN "header_blob"
                                                     ELSE "data_blob"
                /\ size' = r.size
                /\ UNCHANGED << parser_error, m_header_promise >>
    /\ UNCHANGED << otherVars, configVars, readerVars, m_input_queue, n_blobs,
                    queueVars, consumerVars >>

parse_header_blob ==
    /\ pc = "header_blob"
    /\ Len(m_input_buffer) >= size
    /\ m_input_buffer' = TakeRest(m_input_buffer, size)
    /\ LET r == decode_header(TakeOutput(m_input_buffer, size))
       IN  IF r.err # NoErr
           THEN Throw(r.err)
           ELSE /\ KeepPromise(r.header)
                /\ pc' = IF m_read_types = nothing THEN "done"
                                                   ELSE "data_size"
                /\ UNCHANGED parser_error
    /\ UNCHANGED << otherVars, configVars, readerVars, m_input_queue, size, n_blobs,
                    queueVars, consumerVars >>

\* the shared state of a future
NewFuture(task, blob, input) ==
    [task |-> task, blob |-> blob, input |-> input, state |-> "pending",
     buffer |-> EmptyBuffer, err |-> NoErr]

\* the body of the while loop up to the call of m_queue.push
FramerDataBlob ==
    /\ pc = "data_blob"
    /\ Len(m_input_buffer) >= size
    /\ m_input_buffer' = TakeRest(m_input_buffer, size)
    /\ LET input_buffer == TakeOutput(m_input_buffer, size)
       IN  IF Len(input_buffer) > max_uncompressed_blob_size
           THEN Throw(ErrBlobSize) /\ UNCHANGED << n_blobs, futures >>
           ELSE /\ pc' = "push"
                /\ n_blobs' = n_blobs + 1
                /\ futures' = Append(futures,
                       NewFuture(IF m_use_thread_pool THEN "pool" ELSE "sync",
                                 n_blobs + 1, input_buffer))
                /\ UNCHANGED << parser_error, m_header_promise >>
    /\ UNCHANGED << otherVars, configVars, readerVars, m_input_queue, size, m_queue,
                    enqueued, consumerVars >>

\* a Queue::push that does not look at the size of the queue
QueuePushAlways(f) ==
    /\ m_queue' = Append(m_queue, f)
    /\ enqueued' = Append(enqueued, f)

\* Queue::push waits while the queue is full
QueuePush(f) ==
    /\ Len(m_queue) < max_queue_size
    /\ m_queue' = Append(m_queue, f)
    /\ enqueued' = Append(enqueued, f)

\* Queue::wait_and_pop waits while the queue is empty
QueueWaitAndPop(value) ==
    /\ m_queue # <<>>
    /\ value = Head(m_queue)
    /\ m_queue' = Tail(m_queue)

\* FramerPush with the future put in front of the futures that wait
FramerPushFront ==
    /\ pc = "push"
    /\ Len(m_queue) < max_queue_size
    /\ m_queue' = <<Len(futures)>> \o m_queue
    /\ enqueued' = Append(enqueued, Len(futures))
    /\ pc' = IF m_use_thread_pool THEN "data_size" ELSE "decode"
    /\ UNCHANGED << otherVars, configVars, readerVars, m_input_queue, m_input_buffer,
                    size, parser_error, n_blobs, futures, m_header_promise,
                    consumerVars >>

FramerPush ==
    /\ pc = "push"
    /\ QueuePush(Len(futures))
    /\ pc' = IF m_use_thread_pool THEN "data_size" ELSE "decode"
    /\ UNCHANGED << otherVars, configVars, readerVars, m_input_queue, m_input_buffer,
                    size, parser_error, n_blobs, futures, m_header_promise,
                    consumerVars >>

\* a decoder whose result is the one of the first future, whatever future
\* it runs for
DecodedFirst(f) ==
    LET r == DecodeDataBlob(futures[1].input, m_read_types)
    IN  [futures[f] EXCEPT !.state = IF r.err = NoErr THEN "value"
                                                      ELSE "exception",
                           !.buffer = r.buffer,
                           !.err = r.err]

\* a decoder that returns the empty buffer where it should throw
DecodedQuietly(f) ==
    LET r == DecodeDataBlob(futures[f].input, m_read_types)
    IN  [futures[f] EXCEPT !.state = "value", !.buffer = r.buffer]

\* the result of running the decoder of future f
Decoded(f) ==
    LET r == DecodeDataBlob(futures[f].input, m_read_types)
    IN  [futures[f] EXCEPT !.state = IF r.err = NoErr THEN "value"
                                                      ELSE "exception",
                           !.buffer = r.buffer,
                           !.err = r.err]

\* promise.set_value(data_blob_parser()): when the decoder throws, the
\* promise is destroyed without a value and the exception leaves operator()
FramerDecode ==
    /\ pc = "decode"
    /\ LET f == Len(futures)
           d == Decoded(f)
       IN  IF d.state = "value"
           THEN /\ futures' = [futures EXCEPT ![f] = d]
                /\ pc' = "data_size"
                /\ UNCHANGED << parser_error, m_header_promise >>
           ELSE /\ futures' = [futures EXCEPT ![f].state = "exception",
                                              ![f].err = ErrBrokenPromise]
                /\ Throw(d.err)
    /\ UNCHANGED << otherVars, configVars, readerVars, m_input_queue, m_input_buffer,
                    size, n_blobs, m_queue, enqueued, consumerVars >>

\* the empty buffer that signals the end, then return true
FramerSentinel ==
    /\ pc = "sentinel"
    /\ futures' = Append(futures,
           [NewFuture("sentinel", 0, <<>>) EXCEPT !.state = "value"])
    /\ QueuePush(Len(futures) + 1)
    /\ pc' = "done"
    /\ UNCHANGED << otherVars, configVars, readerVars, m_input_queue, m_input_buffer,
                    size, parser_error, n_blobs, m_header_promise,
                    consumerVars >>

\* a pool thread runs the decoder submitted for future f
Worker(f) ==
    /\ futures[f].task = "pool"
    /\ futures[f].state = "pending"
    /\ futures' = [futures EXCEPT ![f] = Decoded(f)]
    /\ UNCHANGED << otherVars, configVars, readerVars, m_input_queue, framerVars,
                    m_queue, enqueued, m_header_promise, consumerVars >>

\* ------------------------------------------------------------- consumer
Outcome(call, result, f, buffer, header, err) ==
    [call |-> call, result |-> result, future |-> f, buffer |-> buffer,
     header |-> header, err |-> err]

Raised(call, f, err) ==
    Outcome(call, "error", f, EmptyBuffer, DefaultHeader, err)

CallsOf(call) == SelectSeq(calls, LAMBDA c : c.call = call)

\* the std::future<bool> of the framer task is ready
ParserReady == pc \in {"done", "error"}

\* osmium::thread::check_for_exception(m_parser_thread): when the future is
\* valid and ready, get() is called on it, which rethrows what ended the task
CheckForExceptionRaises == m_parser_thread /\ pc = "error"
CheckForExceptionGets == m_parser_thread /\ ParserReady

CallRead ==
    /\ cpc = "idle"
    /\ Len(CallsOf("read")) < MaxReads
    /\ cpc' = "read_pop"
    /\ UNCHANGED << otherVars, configVars, readerVars, m_input_queue, framerVars,
                    queueVars, m_header_promise, header_retrieved,
                    m_parser_thread, buffer_future, calls >>

\* m_queue.wait_and_pop(buffer_future)
ReadPop ==
    /\ cpc = "read_pop"
    /\ QueueWaitAndPop(buffer_future')
    /\ cpc' = "read_check"
    /\ UNCHANGED << otherVars, configVars, readerVars, m_input_queue, framerVars,
                    futures, enqueued, m_header_promise, header_retrieved,
                    m_parser_thread, calls >>

ReadCheck ==
    /\ cpc = "read_check"
    /\ m_parser_thread' = (m_parser_thread /\ ~CheckForExceptionGets)
    /\ IF CheckForExceptionRaises
       THEN /\ calls' = Append(calls, Raised("read", buffer_future, parser_error))
            /\ cpc' = "idle"
       ELSE /\ cpc' = "read_get"
            /\ UNCHANGED calls
    /\ UNCHANGED << otherVars, configVars, readerVars, m_input_queue, framerVars,
                    queueVars, m_header_promise, header_retrieved,
                    buffer_future >>

\* return buffer_future.get()
ReadGet ==
    /\ cpc = "read_get"
    /\ futures[buffer_future].state # "pending"
    /\ LET fut == futures[buffer_future]
       IN  calls' = Append(calls,
               IF fut.state = "exception"
               THEN Raised("read", buffer_future, fut.err)
               ELSE Outcome("read", "buffer", buffer_future, fut.buffer,
                            DefaultHeader, NoErr))
    /\ cpc' = "idle"
    /\ UNCHANGED << otherVars, configVars, readerVars, m_input_queue, framerVars,
                    queueVars, m_header_promise, header_retrieved,
                    m_parser_thread, buffer_future >>

\* header() up to the call of get() on the future of the header promise
CallHeader ==
    /\ cpc = "idle"
    /\ Len(CallsOf("header")) < MaxHeaderCalls
    /\ m_parser_thread' = (m_parser_thread /\ ~CheckForExceptionGets)
    /\ IF CheckForExceptionRaises
       THEN /\ calls' = Append(calls, Raised("header", 0, parser_error))
            /\ UNCHANGED << cpc, header_retrieved >>
       ELSE IF header_retrieved
       THEN /\ calls' = Append(calls, Raised("header", 0, ErrFutureRetrieved))
            /\ UNCHANGED << cpc, header_retrieved >>
       ELSE /\ header_retrieved' = TRUE
            /\ cpc' = "header_get"
            /\ UNCHANGED calls
    /\ UNCHANGED << otherVars, configVars, readerVars, m_input_queue, framerVars,
                    queueVars, m_header_promise, buffer_future >>

HeaderGet ==
    /\ cpc = "header_get"
    /\ m_header_promise.set
    /\ calls' = Append(calls,
           Outcome("header", "header", 0, EmptyBuffer,
                   m_header_promise.header, NoErr))
    /\ cpc' = "idle"
    /\ UNCHANGED << otherVars, configVars, readerVars, m_input_queue, framerVars,
                    queueVars, m_header_promise, header_retrieved,
                    m_parser_thread, buffer_future >>

CallClose ==
    /\ cpc = "idle"
    /\ cpc' = "close_drain"
    /\ UNCHANGED << otherVars, configVars, readerVars, m_input_queue, framerVars,
                    queueVars, m_header_promise, header_retrieved,
                    m_parser_thread, buffer_future, calls >>

\* while (m_queue.try_pop(buffer_future));
CloseTryPop ==
    /\ cpc = "close_drain"
    /\ IF m_queue # <<>>
       THEN /\ buffer_future' = Head(m_queue)
            /\ m_queue' = Tail(m_queue)
            /\ UNCHANGED cpc
       ELSE /\ cpc' = "close_wait"
            /\ UNCHANGED << buffer_future, m_queue >>
    /\ UNCHANGED << otherVars, configVars, readerVars, m_input_queue, framerVars,
                    futures, enqueued, m_header_promise, header_retrieved,
                    m_parser_thread, calls >>

\* osmium::thread::wait_until_done(m_parser_thread): get() on the future
\* when it is valid
WaitUntilDoneRaises == m_parser_thread /\ pc = "error"

CloseWait ==
    /\ cpc = "close_wait"
    /\ m_parser_thread => ParserReady
    /\ calls' = Append(calls,
           IF WaitUntilDoneRaises
           THEN Raised("close", 0, parser_error)
           ELSE Outcome("close", "returned", 0, EmptyBuffer, DefaultHeader,
                        NoErr))
    /\ m_parser_thread' = FALSE
    /\ cpc' = "closed"
    /\ UNCHANGED << otherVars, configVars, readerVars, m_input_queue, framerVars,
                    queueVars, m_header_promise, header_retrieved,
                    buffer_future >>

\* ----------------------------------------------------- the specification
Framer ==
    \/ FramerWaitAndPop
    \/ read_blob_header_size_from_file
    \/ check_type_and_get_blob_size
    \/ parse_header_blob
    \/ FramerDataBlob
    \/ FramerPush
    \/ FramerDecode
    \/ FramerSentinel

Workers == \E f \in 1..Len(futures) : Worker(f)

\* the steps that finish a call the consumer is in
ConsumerStep ==
    \/ ReadPop
    \/ ReadCheck
    \/ ReadGet
    \/ HeaderGet
    \/ CloseTryPop
    \/ CloseWait

Next ==
    \/ ReaderPush
    \/ FramerWaitAndPop
    \/ read_blob_header_size_from_file
    \/ check_type_and_get_blob_size
    \/ parse_header_blob
    \/ FramerDataBlob
    \/ FramerPush
    \/ FramerDecode
    \/ FramerSentinel
    \/ Workers
    \/ CallRead
    \/ ReadPop
    \/ ReadCheck
    \/ ReadGet
    \/ CallHeader
    \/ HeaderGet
    \/ CallClose
    \/ CloseTryPop
    \/ CloseWait

Spec == Init /\ [][Next]_vars

\* every thread that can run does run; the caller is not obliged to call
FairSpec ==
    /\ Spec
    /\ WF_vars(ReaderPush)
    /\ WF_vars(Framer)
    /\ WF_vars(Workers)
    /\ WF_vars(ConsumerStep)

\* ------------------------------------------ location index: operations
\* the pipeline does not exist
PipelineUnused ==
    /\ scenario = [n |-> 0, kind |-> "none", at |-> 0, cut |-> 0]
    /\ file = <<>>
    /\ eof_pushed = TRUE
    /\ m_input_queue = <<>>
    /\ m_input_buffer = <<>>
    /\ m_read_types = nothing
    /\ m_use_thread_pool = FALSE
    /\ pc = "done"
    /\ size = 0
    /\ parser_error = NoErr
    /\ n_blobs = 0
    /\ futures = <<>>
    /\ m_queue = <<>>
    /\ enqueued = <<>>
    /\ m_header_promise = [set |-> TRUE, header |-> DefaultHeader]
    /\ header_retrieved = FALSE
    /\ m_parser_thread = FALSE
    /\ cpc = "closed"
    /\ buffer_future = 0
    /\ calls = <<>>

IndexInit ==
    /\ PipelineUnused
    /\ IndexUnused
    /\ OplUnused
    /\ SectionUnused
    /\ SegmentUnused
    /\ CallUnused

\* a factory whose instances share their storage: a new instance empties
\* the ones created earlier
create_map_shared(slot, name) ==
    /\ IF name = ""
       THEN /\ map_error' = ErrMapFactoryEmpty
            /\ UNCHANGED << maps, last_set >>
       ELSE IF name \notin map_types
       THEN /\ map_error' = ErrMapFactoryUnknown
            /\ UNCHANGED << maps, last_set >>
       ELSE /\ map_error' = NoErr
            /\ maps' = [s \in Slots |->
                           IF s = slot \/ maps[s] # NoMap
                           THEN NewMap(MapClass(name), FALSE) ELSE NoMap]
            /\ last_set' = [last_set EXCEPT ![slot] = NeverSet]
    /\ last_op' = Op(slot, "create_map", name)
    /\ UNCHANGED << pipelineVars, oplVars, sectionVars, segmentVars, callVars, n_sets, noexcept_before, sorted_before >>

\* index = MapFactory::instance().create_map(name)
create_map(slot, name) ==
    /\ IF name = ""
       THEN /\ map_error' = ErrMapFactoryEmpty
            /\ UNCHANGED << maps, last_set >>
       ELSE IF name \notin map_types
       THEN /\ map_error' = ErrMapFactoryUnknown
            /\ UNCHANGED << maps, last_set >>
       ELSE /\ map_error' = NoErr
            /\ maps' = [maps EXCEPT ![slot] = NewMap(MapClass(name), FALSE)]
            /\ last_set' = [last_set EXCEPT ![slot] = NeverSet]
    /\ last_op' = Op(slot, "create_map", name)
    /\ UNCHANGED << pipelineVars, oplVars, sectionVars, segmentVars, callVars, n_sets, noexcept_before, sorted_before >>

\* index_type index1;  and  index_type index1{true};  for the types the
\* factory is not asked for
Construct(slot, type, dense) ==
    /\ maps' = [maps EXCEPT ![slot] = NewMap(type, dense)]
    /\ last_set' = [last_set EXCEPT ![slot] = NeverSet]
    /\ last_op' = Op(slot, "construct", type)
    /\ UNCHANGED << pipelineVars, oplVars, sectionVars, segmentVars, callVars, map_error, n_sets, noexcept_before,
                    sorted_before >>

\* index.set(id, value)
set(slot, id, value) ==
    /\ maps[slot] # NoMap
    /\ n_sets < MaxSets
    /\ n_sets' = n_sets + 1
    /\ maps' = [maps EXCEPT ![slot] = MapSet(@, id, value)]
    /\ last_set' = [last_set EXCEPT ![slot][id] = WasSet(value)]
    /\ last_op' = Op(slot, "set", maps[slot].type)
    /\ UNCHANGED << pipelineVars, oplVars, sectionVars, segmentVars, callVars, map_error, noexcept_before, sorted_before >>

\* index.sort()
sort(slot) ==
    /\ maps[slot] # NoMap
    /\ maps' = [maps EXCEPT ![slot] = MapSort(@)]
    /\ last_op' = Op(slot, "sort", maps[slot].type)
    /\ UNCHANGED << pipelineVars, oplVars, sectionVars, segmentVars, callVars, map_error, n_sets, last_set,
                    noexcept_before, sorted_before >>

\* index.clear()
clear(slot) ==
    /\ maps[slot] # NoMap
    /\ maps' = [maps EXCEPT ![slot] = MapClear(@)]
    /\ last_set' = [last_set EXCEPT ![slot] = NeverSet]
    /\ last_op' = Op(slot, "clear", maps[slot].type)
    /\ UNCHANGED << pipelineVars, oplVars, sectionVars, segmentVars, callVars, map_error, n_sets, noexcept_before,
                    sorted_before >>

\* index.switch_to_dense()
switch_to_dense(slot) ==
    /\ maps[slot] # NoMap
    /\ maps[slot].type = FlexMem
    /\ ~maps[slot].dense
    /\ noexcept_before' = [id \in Ids |-> MapGetNoexcept(maps[slot], id)]
    /\ sorted_before' = InIdOrder(maps[slot].entries)
    /\ maps' = [maps EXCEPT ![slot] = MapSwitchToDense(@)]
    /\ last_op' = Op(slot, "switch_to_dense", maps[slot].type)
    /\ UNCHANGED << pipelineVars, oplVars, sectionVars, segmentVars, callVars, map_error, n_sets, last_set >>

\* as in the test, index1 is the index that is filled and asked, and index2
\* is created while index1 is in use
IndexNext ==
    \/ \E slot \in Slots, name \in MapNames : create_map(slot, name)
    \/ \E dense \in BOOLEAN :
           Construct("index1", IF dense THEN FlexMem ELSE Dummy, dense)
    \/ \E id \in SetIds, value \in Locations : set("index1", id, value)
    \/ sort("index1")
    \/ clear("index1")
    \/ switch_to_dense("index1")

IndexSpec == IndexInit /\ [][IndexNext]_vars

\* ------------------------------------------------ OPL parser: operations
OplInit ==
    /\ PipelineUnused
    /\ IndexUnused
    /\ SectionUnused
    /\ SegmentUnused
    /\ CallUnused
    /\ m_buffer = NewBuffer
    /\ m_buffer_before = NewBuffer
    /\ opl_read_types \in { all, {"way"} }
    /\ line_count = 0
    /\ data = NoLine
    /\ returned = Returned(FALSE, NewBuffer)

\* the next line of the input is given to opl_parse_line
ParseLine(l) ==
    /\ line_count' = line_count + 1
    /\ data' = l
    /\ m_buffer_before' = m_buffer
    /\ returned' = opl_parse_line(line_count, Text(l), m_buffer,
                                  opl_read_types)
    /\ m_buffer' = returned'.buffer
    /\ UNCHANGED << pipelineVars, indexVars, sectionVars, segmentVars, callVars,
                   opl_read_types >>

OplNext ==
    \/ /\ line_count = 0
       /\ \E c \in TypeChars, k \in 0..MaxFields :
              \E f \in [1..k -> FieldsOf(EntityType(c))] :
                  Different(f) /\ ParseLine(EntityLine(c, f))
    \/ line_count = 0 /\ \E l \in OtherLines : ParseLine(l)
    \/ line_count = 1 /\ \E l \in NextLines : ParseLine(l)

OplSpec == OplInit /\ [][OplNext]_vars

\* fields that repeat a letter with another value, also with an empty one
RepeatedFields(type) ==
    { Good(<< "v", "1" >>), Good(<< "v", "2" >>), Good(<< "u", "a" >>),
      Good(<< "u", "b" >>), Good(<< "T", "k", "=", "v" >>), Good(<< "T" >>) }
    \cup (IF type = "way"
          THEN { Good(<< "N", "n", "1", ",", "n", "2" >>),
                 Good(<< "N", "n", "3" >>) }
          ELSE IF type = "relation"
          THEN { Good(<< "M", "n", "1", "@", "a", ",", "w", "2", "@" >>),
                 Good(<< "M", "w", "5", "@", "b" >>) }
          ELSE { Good(<< "x", "1", ".", "5" >>) })

RepeatNext ==
    /\ line_count = 0
    /\ \E c \in TypeChars \ { Code["c"] }, k \in 0..MaxFields :
           \E f \in [1..k -> RepeatedFields(EntityType(c))] :
               Different(f) /\ ParseLine(EntityLine(c, f))

RepeatSpec == OplInit /\ [][RepeatNext]_vars

SectionInit ==
    /\ PipelineUnused
    /\ IndexUnused
    /\ OplUnused
    /\ SegmentUnused
    /\ CallUnused
    /\ section \in Sections
    /\ parsed = Unparsed

SectionText == Joined(section.items, Code[","])

ParseWayNodes ==
    /\ section.kind = "N"
    /\ parsed = Unparsed
    /\ parsed' = opl_parse_way_nodes(SectionText, 1, Len(SectionText) + 1)
    /\ UNCHANGED << pipelineVars, indexVars, oplVars, segmentVars, callVars,
                    section >>

ParseRelationMembers ==
    /\ section.kind = "M"
    /\ parsed = Unparsed
    /\ parsed' = opl_parse_relation_members(SectionText, 1,
                                            Len(SectionText) + 1)
    /\ UNCHANGED << pipelineVars, indexVars, oplVars, segmentVars, callVars,
                    section >>

SectionNext == ParseWayNodes \/ ParseRelationMembers

SectionSpec == SectionInit /\ [][SectionNext]_vars

\* ------------------------------------------------ area segments: operations
SegmentInit ==
    /\ PipelineUnused
    /\ IndexUnused
    /\ OplUnused
    /\ SectionUnused
    /\ SegmentUnused
    /\ CallUnused

\* a segment is made of two NodeRefs; every segment has its own node ids,
\* role and way
MakeSegment(l1, l2) ==
    LET k == Len(segments) + 1
        nr1 == NodeRef((2 * k) - 1, l1)
        nr2 == NodeRef(2 * k, l2)
        role == IF k % 2 = 1 THEN "outer" ELSE "inner"
    IN  /\ passed' = Append(passed, << nr1, nr2 >>)
        /\ segments' = Append(segments, NodeRefSegment(nr1, nr2, role, k))
        /\ UNCHANGED << pipelineVars, indexVars, oplVars, sectionVars,
                        callVars, queried, left >>

\* to_left_of is called on the segment
ToLeftOf(location) ==
    /\ queried' = location
    /\ left' = [called |-> TRUE,
                result |-> to_left_of(segments[1], location)]
    /\ UNCHANGED << pipelineVars, indexVars, oplVars, sectionVars, callVars,
                    passed, segments >>

SegmentNext ==
    /\ Len(segments) < Cardinality(Names)
    /\ \E l1 \in GridLocations, l2 \in GridLocations : MakeSegment(l1, l2)

SegmentSpec == SegmentInit /\ [][SegmentNext]_vars

LeftNext ==
    \/ /\ segments = <<>>
       /\ \E l1 \in EndLocations, l2 \in EndLocations : MakeSegment(l1, l2)
    \/ /\ segments # <<>>
       /\ ~left.called
       /\ \E location \in AskedLocations : ToLeftOf(location)

LeftSpec == SegmentInit /\ [][LeftNext]_vars

\* to_left_of is called on a segment of locations of the scaled width: a
\* signed overflow is undefined behaviour, its result is any value
ToLeftOfWide(location) ==
    /\ queried' = location
    /\ \E result \in BOOLEAN :
          /\ NoOverflow(segments[1], location) =>
                 result = to_left_of(segments[1], location)
          /\ left' = [called |-> TRUE, result |-> result]
    /\ UNCHANGED << pipelineVars, indexVars, oplVars, sectionVars, callVars,
                    passed, segments >>

OverflowNext ==
    \/ /\ segments = <<>>
       /\ \E l1 \in WideLocations, l2 \in WideLocations : MakeSegment(l1, l2)
    \/ /\ segments # <<>>
       /\ ~left.called
       /\ \E location \in WideLocations : ToLeftOfWide(location)

OverflowSpec == SegmentInit /\ [][OverflowNext]_vars

\* ------------------------------------ area segments: the intersection
\* The doubles are scaled down with the coordinates: a coordinate is in
\* 0..MaxLonLat, a double has a mantissa of MantissaBits bits (more bits
\* than a coordinate has, as the 53 bits of a double are more than the 32
\* of an int32_t), and the degrees are the coordinates divided by
\* ScaledPrecision, which is no power of two (as coordinate_precision,
\* 10^7, is none). The
\* double m * 2^e is the record of m and e, with m of MantissaBits bits or 0.
MaxLonLat == 3
MantissaBits == 6
ScaledPrecision == 10

RECURSIVE Pow2(_)
Pow2(n) == IF n = 0 THEN 1 ELSE 2 * Pow2(n - 1)

RECURSIVE BitLength(_)
BitLength(a) == IF a = 0 THEN 0 ELSE 1 + BitLength(a \div 2)

Abs(n) == IF n < 0 THEN 0 - n ELSE n
Sgn(n) == IF n < 0 THEN 0 - 1 ELSE 1

Double(m, e) == [m |-> m, e |-> e]
DoubleZero == Double(0, 0)

\* the magnitude a * 2^e with k bits too many, rounded to the nearest
\* double, to the even one of two that are as near
RoundedOff(sign, a, e, k) ==
    LET q == a \div Pow2(k)
        r == a % Pow2(k)
        half == Pow2(k - 1)
        up == IF r > half \/ (r = half /\ q % 2 = 1) THEN q + 1 ELSE q
    IN  IF up = Pow2(MantissaBits)
        THEN Double(sign * Pow2(MantissaBits - 1), e + k + 1)
        ELSE Double(sign * up, e + k)

\* the double nearest to n * 2^e
RoundToDouble(n, e) ==
    IF n = 0 THEN DoubleZero
    ELSE IF BitLength(Abs(n)) <= MantissaBits
    THEN Double(n * Pow2(MantissaBits - BitLength(Abs(n))),
                e - (MantissaBits - BitLength(Abs(n))))
    ELSE RoundedOff(Sgn(n), Abs(n), e, BitLength(Abs(n)) - MantissaBits)

\* a / b: the quotient with two bits more than the mantissa and a last bit
\* that says whether there is a remainder, rounded
DoubleDiv(a, b) ==
    IF a.m = 0 THEN DoubleZero
    ELSE LET num == Abs(a.m) * Pow2(MantissaBits + 2)
             n == (2 * (num \div Abs(b.m)))
                      + (IF num % Abs(b.m) = 0 THEN 0 ELSE 1)
         IN  RoundToDouble(Sgn(a.m) * Sgn(b.m) * n,
                           ((a.e - b.e) - (MantissaBits + 2)) - 1)

DoubleMul(a, b) == RoundToDouble(a.m * b.m, a.e + b.e)

Smaller(i, j) == IF i < j THEN i ELSE j

\* a - b before it is rounded, as n * 2^e
ExactDifference(a, b) ==
    IF a.m = 0 THEN Double(0 - b.m, b.e)
    ELSE IF b.m = 0 THEN a
    ELSE Double((a.m * Pow2(a.e - Smaller(a.e, b.e)))
                    - (b.m * Pow2(b.e - Smaller(a.e, b.e))),
                Smaller(a.e, b.e))

DoubleSub(a, b) ==
    RoundToDouble(ExactDifference(a, b).m, ExactDifference(a, b).e)

DoubleAdd(a, b) == DoubleSub(a, Double(0 - b.m, b.e))

DoubleLessEq(a, b) == ExactDifference(a, b).m <= 0

\* Location::lon() and Location::lat(): the coordinate as a double, divided
\* by the precision
fix_to_double(c) ==
    DoubleDiv(RoundToDouble(c, 0), RoundToDouble(ScaledPrecision, 0))

lon(location) == fix_to_double(location.x)
lat(location) == fix_to_double(location.y)

\* the integer part of the double
Truncated(d) ==
    IF d.e >= 0 THEN d.m * Pow2(d.e)
    ELSE Sgn(d.m) * (Abs(d.m) \div Pow2(0 - d.e))

\* Location(double, double): the degrees times the precision, rounded
\* toward zero
double_to_fix(c) ==
    Truncated(DoubleMul(c, RoundToDouble(ScaledPrecision, 0)))

LocationOfDoubles(ix, iy) == Location(double_to_fix(ix), double_to_fix(iy))

SharedEnd(s1, s2) ==
    \/ LocationEq(first(s1).location, first(s2).location)
    \/ LocationEq(first(s1).location, second(s2).location)
    \/ LocationEq(second(s1).location, first(s2).location)
    \/ LocationEq(second(s1).location, second(s2).location)

\* x of the segment's second end minus x of its first, and the same for y
LonSpan(s) == DoubleSub(lon(second(s).location), lon(first(s).location))
LatSpan(s) == DoubleSub(lat(second(s).location), lat(first(s).location))

\* from the first end of s2 to the first end of s1
LonBetween(s1, s2) ==
    DoubleSub(lon(first(s1).location), lon(first(s2).location))
LatBetween(s1, s2) ==
    DoubleSub(lat(first(s1).location), lat(first(s2).location))

Denom(s1, s2) ==
    DoubleSub(DoubleMul(LatSpan(s2), LonSpan(s1)),
              DoubleMul(LonSpan(s2), LatSpan(s1)))

NumeA(s1, s2) ==
    DoubleSub(DoubleMul(LonSpan(s2), LatBetween(s1, s2)),
              DoubleMul(LatSpan(s2), LonBetween(s1, s2)))

NumeB(s1, s2) ==
    DoubleSub(DoubleMul(LonSpan(s1), LatBetween(s1, s2)),
              DoubleMul(LatSpan(s1), LonBetween(s1, s2)))

\* 0 <= nume <= denom for a positive denom, denom <= nume <= 0 for a
\* negative one
Within(nume, denom) ==
    \/ denom.m > 0 /\ nume.m >= 0 /\ DoubleLessEq(nume, denom)
    \/ denom.m < 0 /\ nume.m <= 0 /\ DoubleLessEq(denom, nume)

\* the location at nume_a / denom of the way from the first end of s1 to
\* its second
IntersectionAt(s1, ua) ==
    LocationOfDoubles(
        DoubleAdd(lon(first(s1).location), DoubleMul(ua, LonSpan(s1))),
        DoubleAdd(lat(first(s1).location), DoubleMul(ua, LatSpan(s1))))

calculate_intersection(s1, s2) ==
    IF SharedEnd(s1, s2) THEN UndefinedLocation
    ELSE IF /\ Denom(s1, s2).m # 0
            /\ Within(NumeA(s1, s2), Denom(s1, s2))
            /\ Within(NumeB(s1, s2), Denom(s1, s2))
    THEN IntersectionAt(s1, DoubleDiv(NumeA(s1, s2), Denom(s1, s2)))
    ELSE UndefinedLocation

LonLatLocations ==
    { Location(x, y) : x \in 0..MaxLonLat, y \in 0..MaxLonLat }

\* ------------------------------------- OPL parser: the parsing functions
\* the digits of the numbers given to the parsing functions, without the
\* zeros in front of them
HexBodies ==
    { <<>>, << "4", "1" >>, << "e", "9" >>, << "7", "F" >>,
      << "2", "0", "A", "c" >>, << "1", "F", "6", "0", "0" >>,
      << "D", "8", "0", "0" >>, << "1", "1", "0", "0", "0", "0" >> }

\* what follows the digits of an escape
EscapeEnds ==
    { << "%" >>, <<>>, << "%", "x" >>, << "g", "%" >>, << " ", "%" >> }

Zeros(n) == [i \in 1..n |-> "0"]

\* what the caller has in its result string before the call
Before == Str(<< "k" >>)

CallInit ==
    /\ PipelineUnused
    /\ IndexUnused
    /\ OplUnused
    /\ SectionUnused
    /\ SegmentUnused
    /\ CallUnused

\* opl_parse_string has read a '%' and calls opl_parse_escaped on the text
\* behind it
ParseEscaped(text) ==
    /\ fn_call = NoCall
    /\ fn_call' = [fn |-> "opl_parse_escaped", text |-> text]
    /\ fn_result' = opl_parse_escaped(Str(text), 1, Before)
    /\ UNCHANGED << pipelineVars, indexVars, oplVars, sectionVars,
                    segmentVars >>

\* the digits of the integers, without the zeros in front of them
IntBodies ==
    { <<>>, << "7" >>, << "4", "2" >>,
      << "2", "1", "4", "7", "4", "8", "3", "6", "4", "7" >> }

Signs == { <<>>, << "-" >> }

\* what follows the digits of an integer
IntEnds == { <<>>, << " " >>, << "x" >> }

IntTypes == { object_id_type, changeset_id_type, user_id_type }

\* opl_parse_int<T> is called on the text
ParseInt(text, T) ==
    /\ fn_call = NoCall
    /\ fn_call' = [fn |-> "opl_parse_int", text |-> text, type |-> T]
    /\ fn_result' = opl_parse_int(Str(text), 1, T)
    /\ UNCHANGED << pipelineVars, indexVars, oplVars, sectionVars,
                    segmentVars >>

\* the pieces of the strings: a char, or a percent escape with the bytes it
\* stands for
Piece(text, bytes) == [text |-> Str(text), bytes |-> bytes]

Pieces ==
    { Piece(<< "a" >>, << 97 >>),
      Piece(<< "%", "2", "0", "%" >>, << 32 >>),
      Piece(<< "%", "9", "%" >>, << 9 >>),
      Piece(<< "%", "2", "c", "%" >>, << 44 >>),
      Piece(<< "%", "3", "D", "%" >>, << 61 >>),
      Piece(<< "%", "0", "0", "%" >>, << 0 >>),
      Piece(<< "%", "e", "9", "%" >>, << 195, 169 >>) }

\* the chars that end a string; the empty one is the end of the line
StringEnds ==
    { <<>>, Str(<< " " >>), << Tab >>, Str(<< "," >>), Str(<< "=" >>) }

\* what follows the char that ended the string
StringRests == { <<>>, Str(<< "b" >>), Str(<< "%" >>) }

RECURSIVE PiecesText(_)
PiecesText(pieces) ==
    IF pieces = <<>> THEN <<>>
    ELSE Head(pieces).text \o PiecesText(Tail(pieces))

RECURSIVE PiecesBytes(_)
PiecesBytes(pieces) ==
    IF pieces = <<>> THEN <<>>
    ELSE Head(pieces).bytes \o PiecesBytes(Tail(pieces))

\* opl_parse_string is called on the pieces, the end and the rest
ParseString(pieces, end, rest) ==
    /\ fn_call = NoCall
    /\ end = <<>> => rest = <<>>
    /\ fn_call' = [fn |-> "opl_parse_string", text |-> <<>>,
                   pieces |-> pieces, end |-> end, rest |-> rest]
    /\ fn_result' =
           opl_parse_string(PiecesText(pieces) \o end \o rest, 1, Before)
    /\ UNCHANGED << pipelineVars, indexVars, oplVars, sectionVars,
                    segmentVars >>

\* calculate_intersection is called on the segments l1-l2 and l3-l4
Intersect(l1, l2, l3, l4) ==
    /\ fn_call = NoCall
    /\ LocationLess(l1, l2)
    /\ LocationLess(l3, l4)
    /\ fn_call' =
           [fn |-> "calculate_intersection", text |-> <<>>,
            s1 |-> NodeRefSegment(NodeRef(1, l1), NodeRef(2, l2), "outer", 1),
            s2 |-> NodeRefSegment(NodeRef(3, l3), NodeRef(4, l4), "outer", 2)]
    /\ fn_result' = calculate_intersection(fn_call'.s1, fn_call'.s2)
    /\ UNCHANGED << pipelineVars, indexVars, oplVars, sectionVars,
                    segmentVars >>

CallNext ==
    \/ /\ fn_call = NoCall
       /\ \E z \in 0..MaxZeros, body \in HexBodies, end \in EscapeEnds :
              ParseEscaped(Zeros(z) \o body \o end)
    \/ /\ fn_call = NoCall
       /\ \E sign \in Signs, z \in 0..MaxZeros, body \in IntBodies,
             end \in IntEnds, T \in IntTypes :
              ParseInt(sign \o Zeros(z) \o body \o end, T)
    \/ /\ fn_call = NoCall
       /\ \E n \in 0..MaxPieces :
              \E pieces \in [1..n -> Pieces], end \in StringEnds,
                 rest \in StringRests :
                  ParseString(pieces, end, rest)

CallSpec == CallInit /\ [][CallNext]_vars

IntersectNext ==
    /\ fn_call = NoCall
    /\ \E l1 \in LonLatLocations, l2 \in LonLatLocations :
           \E l3 \in LonLatLocations, l4 \in LonLatLocations :
               Intersect(l1, l2, l3, l4)

IntersectSpec == CallInit /\ [][IntersectNext]_vars

\* ------------------------------------------------------------ properties
TheFrames == Frames(scenario.n, scenario.kind, scenario.at)

\* the decode result of the k-th OSMData blob of the stream
BlobResult(k) == DecodeDataBlob(TheFrames[k + 1].body, m_read_types)

\* the stream has no deviation that the framer or a decoder rejects
WellFormed == scenario.cut = 0 /\ scenario.kind \in {"none", "indexdata", "body_max"}

Reads == CallsOf("read")

LastCall == calls[Len(calls)]

\* C2: when the framer task has ended with an error that no call has
\* reported yet, a read() the consumer is in or starts returns by raising
\* that error (it does not wait for ever).
C2_FramerErrorRaisedByRead ==
    (pc = "error" /\ m_parser_thread /\ cpc = "read_pop")
        ~> (/\ cpc = "idle"
            /\ calls # <<>>
            /\ LastCall.call = "read"
            /\ LastCall.result = "error"
            /\ LastCall.err = parser_error)

\* the empty buffer that signals the end of input was returned by a read()
EofDelivered ==
    \E k \in 1..Len(Reads) :
        Reads[k].result = "buffer" /\ ~Reads[k].buffer.valid

\* C3: on a well-formed stream, for every read_types setting, a read()
\* called before the end of input was reported returns.
C3_ReadReturns ==
    (WellFormed /\ cpc = "read_pop" /\ ~EofDelivered) ~> (cpc = "idle")

\* C4: close() returns from every state in which it is called.
C4_CloseReturns ==
    (cpc \in {"close_drain", "close_wait"}) ~> (cpc = "closed")

\* C5: no call of close() raises.
C5_CloseNeverRaises ==
    \A i \in 1..Len(calls) :
        calls[i].call = "close" => calls[i].result # "error"

\* positions in the sequence of enqueued futures that hold the sentinel
Sentinels ==
    { i \in 1..Len(enqueued) : futures[enqueued[i]].task = "sentinel" }

\* C6: a framer that has returned without error has enqueued exactly one
\* sentinel, a ready future with the empty Buffer, as its last item; a
\* framer that failed has enqueued none; a sentinel is never followed by
\* another item.
C6_Sentinel ==
    /\ pc = "done" => Sentinels = {Len(enqueued)} /\ enqueued # <<>>
    /\ pc = "error" => Sentinels = {}
    /\ \A i \in Sentinels :
          /\ i = Len(enqueued)
          /\ futures[enqueued[i]].state = "value"
          /\ futures[enqueued[i]].buffer = EmptyBuffer

\* the framing of the stream is good; at most a data blob fails to decode
DecodeFaultOnly ==
    \/ WellFormed
    \/ scenario.kind = "corrupt" /\ scenario.at >= 1

\* C7: the outcome of header() and of the k-th read() does not depend on
\* use_thread_pool.  With the pool the k-th read() returns the decode
\* result of blob k or raises its decode error, and header() returns the
\* decoded Header; the claim is that this holds for both settings.
C7_ThreadPoolFlag ==
    DecodeFaultOnly =>
        /\ \A k \in 1..Len(Reads) :
              /\ k <= scenario.n + 1
              /\ IF k = scenario.n + 1
                 THEN Reads[k].result = "buffer" /\ Reads[k].buffer = EmptyBuffer
                 ELSE IF BlobResult(k).err # NoErr
                 THEN Reads[k].result = "error" /\ Reads[k].err = BlobResult(k).err
                 ELSE Reads[k].result = "buffer" /\ Reads[k].buffer = BlobResult(k).buffer
        /\ \A i \in 1..Len(calls) :
              calls[i].call = "header" =>
                 /\ calls[i].result = "header"
                 /\ calls[i].header = decode_header(TheFrames[1].body).header

\* C8: once a read() has raised an error, no later read() returns a data
\* buffer.
C8_ErrorAbortsStream ==
    \A i, j \in 1..Len(Reads) :
        (i < j /\ Reads[i].result = "error") =>
            ~(Reads[j].result = "buffer" /\ Reads[j].buffer.valid)

\* C9: when the input ends inside a frame (in the length prefix, in the
\* BlobHeader or in the Blob body) the framer does not end without error.
\* (With read_types nothing the framer reads the header blob only.)
C9_TruncationIsError ==
    (scenario.cut > 0 /\ (m_read_types # nothing \/ scenario.n = 0)) =>
        pc \notin {"sentinel", "done"}

BadTypeKinds == {"type_prefix", "type_empty", "type_other", "type_longer"}

\* C10: a blob whose BlobHeader type is not exactly the expected name is
\* not accepted: the framer gets no further than its BlobHeader, and no
\* future is created for it.
C10_BlobTypeCheck ==
    scenario.kind \in BadTypeKinds =>
        IF scenario.at = 0
        THEN pc \in {"header_size", "header_blobheader", "error"}
        ELSE /\ n_blobs < scenario.at
             /\ ~(pc = "data_blob" /\ n_blobs = scenario.at - 1)

\* C11: header before buffers.  The header promise is unfulfilled exactly
\* while the framer is inside parse_header_blob and fulfilled on every way
\* out of it, by success or by an exception; once fulfilled it is never
\* written again; no buffer future is created or enqueued before it is
\* fulfilled; and a header() call that waits on the header future returns.
C11_HeaderBeforeBuffers ==
    /\ [](m_header_promise.set <=> ~InHeaderBlob)
    /\ []((enqueued # <<>> \/ futures # <<>>) => m_header_promise.set)
    /\ [][m_header_promise.set => m_header_promise' = m_header_promise]_vars
    /\ (cpc = "header_get" ~> cpc = "idle")

\* header() was called before any read(), then the framer failed inside
\* the header blob, and the call returned the header the keeper published
C11_Witness ==
    /\ pc = "error"
    /\ scenario.at = 0
    /\ enqueued = <<>>
    /\ Len(calls) = 1
    /\ calls[1].call = "header"
    /\ calls[1].result = "header"
    /\ calls[1].header = DefaultHeader

\* the data blob the i-th read() popped the future of, 0 for the sentinel
PoppedBlob(i) == futures[Reads[i].future].blob

\* the i-th read() popped the future of a data blob that fails to decode
PoppedFailure(i) ==
    /\ PoppedBlob(i) >= 1
    /\ BlobResult(PoppedBlob(i)).err # NoErr

\* with the thread pool, the decode failure of a data blob is in the future
\* of that blob only, and no decode failure of a data blob ends the framer
FailuresStayInFuture ==
    /\ \A f \in 1..Len(futures) :
          futures[f].state = "exception" =>
              /\ futures[f].blob >= 1
              /\ futures[f].err = BlobResult(futures[f].blob).err
              /\ futures[f].err # NoErr
    /\ pc = "error" /\ parser_error = ErrDecode => scenario.at = 0
    /\ \A i \in 1..Len(Reads) :
          Reads[i].result = "error" /\ Reads[i].err = ErrDecode
                  /\ scenario.at >= 1
              => PoppedFailure(i)

PoppedBuffer(i) ==
    /\ PoppedBlob(i) >= 1
    /\ BlobResult(PoppedBlob(i)).err = NoErr

\* C37: no delivered data is lost to a later failure of the framer: a read()
\* that has popped the future of a data blob that was enqueued before the
\* framer failed returns the buffer of that blob; it does not raise the
\* error of the framer in its place
C37_NoDataLost ==
    \A i \in 1..Len(Reads) :
        PoppedBuffer(i) =>
            /\ Reads[i].result = "buffer"
            /\ Reads[i].buffer = BlobResult(PoppedBlob(i)).buffer

\* the bytes of the stream that no read_from_input_queue call has returned:
\* those in the accumulator, those in the input queue and those the reader
\* has not pushed
Remaining == m_input_buffer \o Concat(m_input_queue) \o file

IsSuffix(t, u) ==
    /\ Len(t) <= Len(u)
    /\ t = SubSeq(u, Len(u) - Len(t) + 1, Len(u))

\* the reader takes a chunk from the file and pushes it to the input queue
ChunkPushed ==
    /\ Len(m_input_queue') = Len(m_input_queue) + 1
    /\ Concat(m_input_queue') \o file' = Concat(m_input_queue) \o file

\* a chunk popped from the input queue is appended to the accumulator
ChunkAppended ==
    /\ m_input_queue # <<>>
    /\ m_input_queue' = Tail(m_input_queue)
    /\ m_input_buffer' = m_input_buffer \o Head(m_input_queue)

\* read_from_input_queue returns the first Wanted bytes of the accumulator
\* and keeps the others; the bytes returned for a blob are the input of its
\* future
BytesReturned ==
    /\ IsReading
    /\ Len(m_input_buffer) >= Wanted
    /\ m_input_buffer' =
           SubSeq(m_input_buffer, Wanted + 1, Len(m_input_buffer))
    /\ UNCHANGED m_input_queue
    /\ pc' = "push" =>
           futures'[Len(futures')].input = SubSeq(m_input_buffer, 1, Wanted)

\* C40: every successful read_from_input_queue(size) returns the next size
\* bytes and keeps every other received byte in the accumulator: what was
\* returned, followed by the accumulator, is what was popped from the
\* input queue, so the bytes not yet returned are always the end of the
\* stream
C40_ByteConservation ==
    /\ [](IsSuffix(Remaining, ScenarioStream(scenario)))
    /\ [][(m_input_buffer' # m_input_buffer \/ m_input_queue' # m_input_queue
              \/ file' # file) =>
             \/ ChunkAppended /\ file' = file
             \/ BytesReturned /\ file' = file
             \/ ChunkPushed /\ m_input_buffer' = m_input_buffer]_vars

\* the framer has had the bytes of the header blob and of a data blob
\* returned and its accumulator holds bytes of the next frame
C40_Witness ==
    /\ n_blobs = 1
    /\ pc = "data_size"
    /\ m_input_buffer # <<>>
    /\ Len(m_input_buffer) < SizeOfUint32
    /\ file # <<>>

\* reading or decoding the OSMHeader blob has failed: the framer has ended
\* with an error and the header it published is not a decoded one
HeaderFailed ==
    /\ pc = "error"
    /\ m_header_promise.set
    /\ m_header_promise.header = DefaultHeader

\* a header() call returned the default-constructed Header
DefaultHeaderReturned ==
    \E i \in 1..Len(calls) :
        /\ calls[i].call = "header"
        /\ calls[i].result = "header"
        /\ calls[i].header = DefaultHeader

\* C26: when reading or decoding the OSMHeader blob fails, no header() call
\* returns a default-constructed Header, whenever it is made, and a read()
\* called after the failure raises the error
C26_HeaderFailure ==
    /\ [](HeaderFailed => ~DefaultHeaderReturned)
    /\ (HeaderFailed /\ m_parser_thread /\ cpc = "read_pop")
           ~> (/\ cpc = "idle"
               /\ calls # <<>>
               /\ LastCall.call = "read"
               /\ LastCall.result = "error"
               /\ LastCall.err = parser_error)

\* the frame with the deviation of the scenario has a length prefix greater
\* than max_blob_header_size: the framer fails with pbf_error when it has
\* read the prefix and reads nothing of the frame after it
PrefixLimit ==
    scenario.kind = "prefix_big" =>
        /\ pc = "error" => parser_error = ErrHeaderSize
        /\ IF scenario.at = 0
           THEN pc \in {"header_size", "error"}
           ELSE /\ n_blobs < scenario.at
                /\ n_blobs = scenario.at - 1 =>
                      pc \notin {"data_blobheader", "data_blob", "sentinel"}
                /\ pc = "done" => m_read_types = nothing
        /\ pc = "error" =>
              Len(file) + Len(Concat(m_input_queue)) + Len(m_input_buffer)
                  >= Len(TheFrames[scenario.at + 1].blob_header)

\* no decoder of a data blob gets a body larger than the maximum blob size
DataBlobLimit ==
    /\ \A f \in 1..Len(futures) :
          Len(futures[f].input) <= max_uncompressed_blob_size
    /\ scenario.kind = "body_big" /\ scenario.at >= 1 =>
          /\ n_blobs < scenario.at
          /\ pc # "sentinel"
          /\ pc = "done" => m_read_types = nothing
          /\ pc = "error" => parser_error = ErrBlobSize

\* a header blob larger than the maximum blob size is not decoded
HeaderBlobLimit ==
    scenario.kind = "body_big" /\ scenario.at = 0 =>
        /\ m_header_promise.set => m_header_promise.header = DefaultHeader
        /\ pc \in {"header_size", "header_blobheader", "header_blob", "error"}

\* C27: a length prefix larger than max_blob_header_size makes the framer
\* fail with pbf_error before it reads a byte of the BlobHeader; no blob,
\* header blob or data blob, with a body larger than the maximum blob size
\* is given to a decoder: the framer fails with pbf_error
C27_SizeLimits == PrefixLimit /\ DataBlobLimit /\ HeaderBlobLimit

\* the ordering queue never holds more than max_queue_size futures, and
\* nothing is enqueued while it is full
QueueBounded ==
    /\ [](Len(m_queue) <= max_queue_size)
    /\ [][Len(m_queue) = max_queue_size => enqueued' = enqueued]_vars

\* C28 (as amended): the ordering queue never holds more than
\* max_queue_size futures; while it is full the framer enqueues nothing,
\* and it frames at most one further blob, whose future it holds until the
\* consumer has popped a future
C28_Backpressure ==
    /\ QueueBounded
    /\ [](Len(futures) <= Len(enqueued) + 1)
    /\ [][pc = "push" => n_blobs' = n_blobs]_vars

\* C28 (as stated): the ordering queue never holds more than
\* max_queue_size futures; while it is full the framer enqueues nothing and
\* frames no further blob
C28_BackpressureStated ==
    /\ QueueBounded
    /\ [][Len(m_queue) = max_queue_size => n_blobs' = n_blobs]_vars

\* the queue is full and the framer waits in push with the future of one
\* more blob
C28_Witness ==
    /\ Len(m_queue) = max_queue_size
    /\ pc = "push"
    /\ Len(futures) = Len(enqueued) + 1
    /\ n_blobs = max_queue_size + 1

\* the input is empty: it ends before the first length prefix
EmptyInput == scenario.n = 0 /\ scenario.cut = GoodFrameLen

\* the first blob of the stream is not of type OSMHeader, or there is none
NoHeaderBlob ==
    \/ EmptyInput
    \/ scenario.at = 0 /\ scenario.kind \in BadTypeKinds

\* C29: on a stream without OSMHeader blob, among them the input that ends
\* before the first length prefix, the framer ends with pbf_error: it does
\* not get past the header blob, it does not return, and it does not wait
\* for input for ever
C29_OneHeaderBlob ==
    /\ [](NoHeaderBlob => InHeaderBlob \/ pc = "error")
    /\ NoHeaderBlob ~> (pc = "error" /\ parser_error # NoErr)

\* ------------------------------------------- properties: location index
index1 == maps["index1"]
LastSet(id) == last_set["index1"][id]
Stored(id) == LastSet(id).value
Sorted == last_op.op = "sort" /\ index1.type # Dummy

\* C12, as claimed: after sort(), on every back-end but Dummy, get(id) and
\* get_noexcept(id) return the location of the last set on id for every id
\* that was set; for an id never set get fails and get_noexcept returns
\* the undefined Location; get fails exactly when get_noexcept returns the
\* undefined Location.
C12_IndexCompleteness ==
    Sorted =>
        \A id \in Ids :
            /\ LastSet(id).set =>
                  /\ MapGet(index1, id) = Found(Stored(id))
                  /\ MapGetNoexcept(index1, id) = Stored(id)
            /\ ~LastSet(id).set =>
                  /\ MapGet(index1, id) = NotFound
                  /\ MapGetNoexcept(index1, id) = UndefinedLocation
            /\ ~MapGet(index1, id).found <=>
                  MapGetNoexcept(index1, id) = UndefinedLocation

\* C12, amended: after sort(), on every back-end but Dummy, get(id) and
\* get_noexcept(id) return the location of the last set on id for every id
\* whose last set stored a defined location; for an id never set get fails
\* with not_found and get_noexcept returns the undefined Location.
C12_IndexCompletenessDefined ==
    Sorted =>
        \A id \in Ids :
            /\ (LastSet(id).set /\ Stored(id) # UndefinedLocation) =>
                  /\ MapGet(index1, id) = Found(Stored(id))
                  /\ MapGetNoexcept(index1, id) = Stored(id)
            /\ ~LastSet(id).set =>
                  /\ MapGet(index1, id) = NotFound
                  /\ MapGetNoexcept(index1, id) = UndefinedLocation

\* a sparse array was filled against the order of the ids and sorted
C12_Witness ==
    /\ Sorted
    /\ index1.type = SparseArray
    /\ index1.entries = << [id |-> 3, value |-> location_matching_id(2)],
                           [id |-> 12, value |-> location_matching_id(1)] >>
    /\ MapGet(index1, 0) = NotFound

\* C13: after clear(), on every back-end, size() is 0, get(id) fails with
\* not_found and get_noexcept(id) returns the undefined Location for every
\* id, also for the ids set before the clear.
C13_ClearEmpties ==
    last_op.op = "clear" =>
        /\ MapSize(index1) = 0
        /\ \A id \in Ids :
              /\ MapGet(index1, id) = NotFound
              /\ MapGetNoexcept(index1, id) = UndefinedLocation

\* a dense index that was filled has been cleared
C13_Witness ==
    /\ last_op.op = "clear"
    /\ index1.type = Dense
    /\ n_sets = MaxSets

\* C14, as claimed: a default-constructed Flex index is not dense; after
\* switch_to_dense() it is dense and get_noexcept(id) returns for every id
\* what it returned immediately before the switch.
C14_FlexSwitchPreserves ==
    /\ (last_op.op = "create_map" /\ last_op.name \in FlexTypes
           /\ last_op.slot = "index1") => ~index1.dense
    /\ last_op.op = "switch_to_dense" =>
          /\ index1.dense
          /\ \A id \in Ids :
                MapGetNoexcept(index1, id) = noexcept_before[id]

\* C14, amended: a default-constructed Flex index is not dense; after
\* switch_to_dense() it is dense and get_noexcept(id) returns the location
\* of the last set on id for every id that was set and the undefined
\* Location for every other id; this is what it returned immediately
\* before the switch when the entries were in strictly increasing id order
\* then (as they are after sort()).
C14_FlexSwitchStores ==
    /\ (last_op.op = "create_map" /\ last_op.name \in FlexTypes
           /\ last_op.slot = "index1") => ~index1.dense
    /\ last_op.op = "switch_to_dense" =>
          /\ index1.dense
          /\ \A id \in Ids :
                /\ MapGetNoexcept(index1, id) = Stored(id)
                /\ sorted_before =>
                      MapGetNoexcept(index1, id) = noexcept_before[id]

\* a Flex index filled in id order was switched, and an id far above the
\* largest id set is still undefined
C14_Witness ==
    /\ last_op.op = "switch_to_dense"
    /\ sorted_before
    /\ index1.cells # <<>>
    /\ Stored(3) = location_matching_id(1)
    /\ Stored(12) = location_matching_id(2)
    /\ noexcept_before[12] = location_matching_id(2)
    /\ MapGetNoexcept(index1, 100) = UndefinedLocation

\* C15: create_map(name) fails with map_factory_error exactly when name is
\* empty or not a registered name; for a registered name the index it
\* returns is of the type registered under the name and empty; and a
\* create_map call, failed or not, changes no index created earlier.
C15_IndexFactory ==
    /\ [](last_op.op = "create_map" =>
            /\ map_error # NoErr <=> last_op.name \notin map_types
            /\ last_op.name = "" => map_error = ErrMapFactoryEmpty
            /\ last_op.name \in map_types =>
                  /\ maps[last_op.slot] =
                        NewMap(MapClass(last_op.name), FALSE)
                  /\ MapSize(maps[last_op.slot]) = 0
                  /\ \A id \in Ids :
                        ~MapGet(maps[last_op.slot], id).found)
    /\ [][last_op'.op = "create_map" =>
            \A slot \in Slots :
                (slot # last_op'.slot \/ map_error' # NoErr) =>
                    maps'[slot] = maps[slot]]_vars

\* index2 was created by the factory while index1 held two locations
C15_Witness ==
    /\ last_op = Op("index2", "create_map", "sparse_mem_array")
    /\ map_error = NoErr
    /\ MapSize(index1) = MaxSets
    /\ MapSize(maps["index2"]) = 0

\* ----------------------------------------------- properties: OPL parser
\* the last opl_parse_line call raised an exception
LineFailed == returned.err # NoErr

\* C16: when opl_parse_line fails on a line, the buffer is left exactly as
\* it was before the line was parsed (same committed size, same written
\* size, same contents), and a successful line that follows commits its own
\* entity only: the committed size grows by one from the size before the
\* failed line.
C16_ParserRollback ==
    /\ [](LineFailed => m_buffer = m_buffer_before)
    /\ [][(LineFailed /\ returned'.ret) =>
              m_buffer'.committed = m_buffer_before.committed + 1]_vars

\* the offsets in the line at which parsing a field that is not
\* well-formed fails
ErrorOffsets(l) ==
    { FieldStart(l, i) + l.fields[i].at :
          i \in { j \in 1..Len(l.fields) : l.fields[j].bad } }

\* C17: every opl_error that leaves opl_parse_line carries the line_count
\* argument as line and, as column, the offset from the start of the line
\* of the char at which parsing failed, between 0 and the length of the
\* line; also for an error found in a T, N or M section that is parsed
\* after the rest of the line was scanned.
C17_ErrorPositions ==
    returned.kind = "opl_error" =>
        /\ returned.line = line_count - 1
        /\ returned.column \in 0..Len(Text(data))
        /\ IF EntityType(data.head[1]) = "none"
           THEN returned.column = 0
           ELSE returned.column \in ErrorOffsets(data)

\* an error in the N section of the second line, which has another field
\* behind it
C17_Witness ==
    /\ returned.kind = "opl_error"
    /\ returned.line = 1
    /\ Len(data.fields) = 2
    /\ data.fields[1].text[1] = Code["N"]
    /\ returned.column = FieldStart(data, 1) + data.fields[1].at
    /\ returned.column > 0

\* what a call of opl_parse_line has committed
Committed(r) ==
    IF r.ret THEN << r.buffer.written[Len(r.buffer.written)] >> ELSE << >>

DistinctLetters(l) ==
    \A i, j \in 1..Len(l.fields) :
        i # j => l.fields[i].text[1] # l.fields[j].text[1]

\* the line with its fields i and i + 1 exchanged
Swapped(l, i) ==
    [l EXCEPT !.fields =
        [j \in 1..Len(l.fields) |->
            IF j = i THEN l.fields[i + 1]
            ELSE IF j = i + 1 THEN l.fields[i]
            ELSE l.fields[j]]]

\* C18: for a line in which every field letter occurs at most once the
\* committed entity is the same for every permutation of the fields after
\* the id. Every first line is checked against the lines that exchange two
\* of its neighbouring fields; these exchanges generate every permutation,
\* and every permuted line is a first line itself.
C18_FieldOrder ==
    (line_count = 1 /\ DistinctLetters(data)) =>
        \A i \in 1..(Len(data.fields) - 1) :
            Committed(opl_parse_line(0, Text(Swapped(data, i)), NewBuffer,
                                     opl_read_types))
                = Committed(returned)

\* a way with its node list written before its tags and its user
C18_Witness ==
    /\ line_count = 1
    /\ returned.ret
    /\ DistinctLetters(data)
    /\ Len(data.fields) = MaxFields
    /\ data.fields[1].text[1] = Code["N"]
    /\ Committed(returned)[1].nodes # << >>
    /\ Committed(returned)[1].tags # << >>
    /\ Committed(returned)[1].user # << >>

\* ------------------------------------ properties: OPL parser, sections
SectionParsed == parsed.err # Unparsed.err

\* every item of the section is well-formed
AllGood == \A i \in 1..Len(section.items) : ~section.items[i].bad

\* what the well-formed items of the section stand for, in their order
Expected == [i \in 1..Len(section.items) |-> section.items[i].val]

\* the section is one empty item, which is the section without items
OnlyEmpty == Len(section.items) = 1 /\ section.items[1].text = << >>

\* the claim about the lists of both kinds
ListAsWritten ==
    (SectionParsed /\ ~OnlyEmpty) =>
        IF AllGood THEN ~Failed(parsed) /\ parsed.val = Expected
        ELSE parsed.kind = "opl_error"

\* C19: an N section of items n<id>[x<coord>[y<coord>]] separated by commas
\* yields one NodeRef per item, in the order written, with the given id, the
\* undefined Location for an item without coordinates and the given
\* location for an item with x and y; with an item that does not start with
\* 'n' or has no id, parsing fails with opl_error.
C19_WayNodeList == section.kind = "N" => ListAsWritten

\* C20: an M section of items <n|w|r><id>@<role> separated by commas yields
\* one member per item, in the order written, with that type, id and role
\* (the empty string for an empty role); with an item whose type letter is
\* not n, w or r, that has no id or that lacks the '@', parsing fails with
\* opl_error.
C20_RelationMemberList == section.kind = "M" => ListAsWritten

\* ------------------------------------------------ properties of segments
\* the same two locations, in either order
SameEnds(p, q) ==
    \/ /\ p[1].location = q[1].location
       /\ p[2].location = q[2].location
    \/ /\ p[1].location = q[2].location
       /\ p[2].location = q[1].location

\* the segment made of the arguments of the i-th segment, the other way round
Reversed(i) ==
    NodeRefSegment(passed[i][2], passed[i][1], segments[i].m_role,
                   segments[i].m_way)

\* C21: every segment has its first location not after its second one in
\* the order by x, then y, and holds the two NodeRefs it was made of; the
\* segment made of the same NodeRefs the other way round is equal to it;
\* two segments are equal exactly when they were made of the same two
\* locations, whatever their node ids, roles and ways are
C21_Canonical ==
    /\ \A i \in 1..Len(segments) :
        /\ ~LocationLess(second(segments[i]).location,
                         first(segments[i]).location)
        /\ { first(segments[i]), second(segments[i]) }
               = { passed[i][1], passed[i][2] }
        /\ first(segments[i]) # second(segments[i])
        /\ SegmentEq(segments[i], Reversed(i))
        /\ SegmentEq(Reversed(i), segments[i])
    /\ \A i, j \in 1..Len(segments) :
        SegmentEq(segments[i], segments[j])
            <=> SameEnds(passed[i], passed[j])

\* a segment whose NodeRefs were swapped, and an equal one with other node
\* ids, role and way made of the same locations in the other order
C21_Witness ==
    /\ Len(segments) >= 2
    /\ LocationLess(passed[1][2].location, passed[1][1].location)
    /\ first(segments[1]) = passed[1][2]
    /\ passed[2][1].location = passed[1][2].location
    /\ passed[2][2].location = passed[1][1].location
    /\ segments[1].m_role # segments[2].m_role
    /\ SegmentEq(segments[1], segments[2])

\* the coordinates a segment is sorted by
Key(segment) ==
    << first(segment).location.x, first(segment).location.y,
       second(segment).location.x, second(segment).location.y >>

\* the lexicographic order of two tuples of the same length
LexLess(a, b) ==
    \E k \in 1..Len(a) : a[k] < b[k] /\ \A j \in 1..(k - 1) : a[j] = b[j]

\* exactly one of the three holds
ExactlyOne(p, q, r) ==
    /\ p \/ q \/ r
    /\ ~(p /\ q)
    /\ ~(p /\ r)
    /\ ~(q /\ r)

\* C22: operator< of segments is the lexicographic order by first location,
\* then second location; of s < t, t < s and s == t exactly one holds for
\* all segments s and t, and < is transitive
C22_SegmentOrder ==
    /\ \A i, j \in 1..Len(segments) :
        /\ SegmentLess(segments[i], segments[j])
               <=> LexLess(Key(segments[i]), Key(segments[j]))
        /\ ExactlyOne(SegmentLess(segments[i], segments[j]),
                      SegmentLess(segments[j], segments[i]),
                      SegmentEq(segments[i], segments[j]))
    /\ \A i, j, k \in 1..Len(segments) :
        SegmentLess(segments[i], segments[j])
                /\ SegmentLess(segments[j], segments[k])
            => SegmentLess(segments[i], segments[k])

\* three segments in increasing order, the first two with the same first
\* location
C22_Witness ==
    /\ Len(segments) = Cardinality(Names)
    /\ first(segments[1]).location = first(segments[2]).location
    /\ SegmentLess(segments[1], segments[2])
    /\ first(segments[2]).location # first(segments[3]).location
    /\ SegmentLess(segments[2], segments[3])
    /\ SegmentLess(segments[1], segments[3])

\* the location lies on the segment, its two ends included
OnTheSegment(segment, location) ==
    LET a == first(segment).location
        b == second(segment).location
    IN  /\ CrossProduct(a.x, b.x, location.x, a.y, b.y, location.y) = 0
        /\ Min(a.x, b.x) <= location.x
        /\ location.x <= Max(a.x, b.x)
        /\ Min(a.y, b.y) <= location.y
        /\ location.y <= Max(a.y, b.y)

\* C23: to_left_of returns false for every location that lies on the
\* segment, for both ends and for every location between them
C23_OnSegmentIsFalse ==
    left.called /\ OnTheSegment(segments[1], queried) => ~left.result

\* to_left_of was called on the segment (0,0)-(10,10)
AskedOfExample ==
    /\ left.called
    /\ first(segments[1]).location = Location(0, 0)
    /\ second(segments[1]).location = FarEnd

\* to_left_of is false for every location whose x is smaller than the x of
\* the first location of the segment
BeforeFirstIsFalse ==
    left.called /\ queried.x < first(segments[1]).location.x
        => ~left.result

\* C24 (as amended): on the segment (0,0)-(10,10) to_left_of is false for
\* (5,6), true for (5,4) and false for (-1,5); to_left_of is false for every
\* location whose x is smaller than the x of the first location of the
\* segment
C24_LeftOfExamples ==
    /\ AskedOfExample /\ queried = AboveSegment => ~left.result
    /\ AskedOfExample /\ queried = BelowSegment => left.result
    /\ AskedOfExample /\ queried = BeforeSegment => ~left.result
    /\ BeforeFirstIsFalse

\* C24 (as stated): on the segment (0,0)-(10,10) to_left_of is true for
\* (5,6) and false for (-1,5); to_left_of is false for every location whose
\* x is smaller than the x of the first location of the segment
C24_LeftOfExamplesStated ==
    /\ AskedOfExample /\ queried = AboveSegment => left.result
    /\ AskedOfExample /\ queried = BeforeSegment => ~left.result
    /\ BeforeFirstIsFalse

\* to_left_of((5,6)) was called on the segment (0,0)-(10,10), made of its
\* two ends in the other order
C24_Witness ==
    /\ AskedOfExample
    /\ passed[1][1].location = FarEnd
    /\ queried = AboveSegment
    /\ ~left.result

\* the end of the segment with the smaller y, and the other one
LowerEnd(segment) ==
    IF second(segment).location.y < first(segment).location.y
    THEN second(segment).location
    ELSE first(segment).location

UpperEnd(segment) ==
    IF second(segment).location.y < first(segment).location.y
    THEN first(segment).location
    ELSE second(segment).location

\* the predicate with the x of the lower end, as stated
LeftOfByLowerEnd(segment, p) ==
    LET a == LowerEnd(segment)
        b == UpperEnd(segment)
    IN  /\ ~(a.y >= p.y \/ b.y < p.y \/ a.x > p.x)
        /\ CrossProduct(a.x, b.x, p.x, a.y, b.y, p.y) <= 0

\* the predicate with the x of the first end, false at both ends
LeftOfByFirstEnd(segment, p) ==
    LET a == LowerEnd(segment)
        b == UpperEnd(segment)
    IN  /\ p # a
        /\ p # b
        /\ a.y < p.y
        /\ p.y <= b.y
        /\ Min(a.x, b.x) <= p.x
        /\ CrossProduct(a.x, b.x, p.x, a.y, b.y, p.y) <= 0

C31_NoOverflow ==
    left.called =>
        /\ NoOverflow(segments[1], queried)
        /\ left.result = to_left_of(segments[1], queried)

\* --------------------------------- properties of the parsing functions
HexChars == { "0", "1", "2", "3", "4", "5", "6", "7", "8", "9",
              "a", "b", "c", "d", "e", "f", "A", "B", "C", "D", "E", "F" }

HexDigitValue ==
    [c \in HexChars |->
        IF Code[c] <= Code["9"] THEN Code[c] - Code["0"]
        ELSE IF Code[c] <= Code["F"] THEN (Code[c] - Code["A"]) + 10
        ELSE (Code[c] - Code["a"]) + 10]

\* the number of chars of the set at the start of the text
RECURSIVE LeadingOf(_, _)
LeadingOf(text, chars) ==
    IF text # <<>> /\ Head(text) \in chars
    THEN 1 + LeadingOf(Tail(text), chars)
    ELSE 0

\* the value of the first n chars of the text, read as hex digits
RECURSIVE HexValue(_, _)
HexValue(text, n) ==
    IF n = 0 THEN 0
    ELSE (16 * HexValue(text, n - 1)) + HexDigitValue[text[n]]

\* the escape has n hex digits and the closing '%'
ClosedEscape(text, n) ==
    /\ LeadingOf(text, HexChars) = n
    /\ Len(text) > n
    /\ text[n + 1] = "%"

EscapedCall == fn_call.fn = "opl_parse_escaped"

\* C32: an escape of 1 to 8 hex digits and a closing '%' is accepted: the
\* UTF-8 encoding of its value is appended to the result and the cursor is
\* behind the closing '%'; an escape without digits, with more than 8
\* digits, with a char that is no hex digit, or ended by the end of the
\* line fails with opl_error
C32_PercentEscapes ==
    EscapedCall =>
        LET n == LeadingOf(fn_call.text, HexChars)
        IN  IF ClosedEscape(fn_call.text, n) /\ n \in 1..max_escape_length
            THEN InvalidCodePoint(HexValue(fn_call.text, n))
                 \/ fn_result =
                       Ok(n + 2, Before \o Utf32to8(HexValue(fn_call.text, n)))
            ELSE /\ Failed(fn_result)
                 /\ fn_result.kind = "opl_error"

DecChars == { "0", "1", "2", "3", "4", "5", "6", "7", "8", "9" }

\* the value of the first n chars of the text, read as decimal digits
RECURSIVE DecValue(_, _)
DecValue(text, n) ==
    IF n = 0 THEN 0
    ELSE (10 * DecValue(text, n - 1)) + (Code[text[n]] - Code["0"])

IntCall == fn_call.fn = "opl_parse_int"

\* the text of the call without its sign
Unsigned(text) ==
    IF text # <<>> /\ Head(text) = "-" THEN Tail(text) ELSE text

IsNegative(text) == text # <<>> /\ Head(text) = "-"

\* the value is in the range of the type (the values of the check are all
\* in the range of int32_t)
InRange(value, T) == T.signed \/ value >= 0

\* C33: opl_parse_int<T> accepts an optional '-' and 1 to 16 digits with a
\* value in the range of T: it returns the value and leaves the cursor
\* behind the last digit; without digit, with more than 16 digits and with
\* a value outside the range of T it fails with opl_error
C33_IntegerParsing ==
    IntCall =>
        LET digits == Unsigned(fn_call.text)
            n == LeadingOf(digits, DecChars)
            value == Signed(IsNegative(fn_call.text), DecValue(digits, n))
        IN  IF n \in 1..max_int_len /\ InRange(value, fn_call.type)
            THEN fn_result = Ok(Len(fn_call.text) - Len(digits) + n + 1, value)
            ELSE /\ Failed(fn_result)
                 /\ fn_result.kind = "opl_error"

StringCall == fn_call.fn = "opl_parse_string"

\* the pieces of the call that are an escaped space, tab, comma, '=' or NUL
EscapedEnds(pieces) ==
    { i \in 1..Len(pieces) :
        /\ Len(pieces[i].text) > 1
        /\ IsStringEnd(pieces[i].bytes[1]) }

\* C34: opl_parse_string appends the bytes up to the first space, tab,
\* comma, '=' or end of line that is not escaped, with the percent escapes
\* decoded, and leaves the cursor on that char; an escaped one of them is
\* appended and does not end the string
C34_StringParsing ==
    StringCall =>
        fn_result = Ok(Len(PiecesText(fn_call.pieces)) + 1,
                       Before \o PiecesBytes(fn_call.pieces))

C34_Witness ==
    /\ StringCall
    /\ fn_call.end = Str(<< "=" >>)
    /\ fn_call.rest # <<>>
    /\ EscapedEnds(fn_call.pieces) = { 1 }
    /\ Len(fn_call.pieces) = 2
    /\ fn_result.val = Before \o PiecesBytes(fn_call.pieces)

\* ------------------------------------- properties: OPL parser, the lines
\* the first char of the line given to the last opl_parse_line call
FirstChar == Deref(Text(data), 1)

\* the line is empty, a comment, or of an entity type that is not read
Ignored ==
    \/ FirstChar = Nul
    \/ FirstChar = Code["#"]
    \/ /\ EntityType(FirstChar) # "none"
       /\ EntityType(FirstChar) \notin opl_read_types

\* C35: opl_parse_line returns true exactly when it has committed exactly
\* one new entity; an empty line, a line starting with '#' and a line of an
\* entity type that is not in read_types return false without error and
\* leave the buffer unchanged, whatever follows the type letter; a line
\* starting with any other char fails with opl_error 'unknown type' at
\* column 0
C35_LineResult ==
    line_count >= 1 =>
        /\ returned.ret =>
              /\ Len(m_buffer.written) = Len(m_buffer_before.written) + 1
              /\ m_buffer.committed = m_buffer_before.committed + 1
        /\ (~returned.ret /\ ~LineFailed) => m_buffer = m_buffer_before
        /\ Ignored =>
              /\ ~returned.ret
              /\ ~LineFailed
              /\ m_buffer = m_buffer_before
        /\ (~Ignored /\ EntityType(FirstChar) = "none") =>
              /\ returned.kind = "opl_error"
              /\ returned.err = "unknown type"
              /\ returned.column = 0

\* ------------------------------------- properties of the intersection
IntersectCall == fn_call.fn = "calculate_intersection"

\* the cross product of the directions of the segments, in integers
Cross(s1, s2) ==
    ((second(s1).location.x - first(s1).location.x)
        * (second(s2).location.y - first(s2).location.y))
    - ((second(s1).location.y - first(s1).location.y)
        * (second(s2).location.x - first(s2).location.x))

\* parallel segments, those on one line among them
Parallel(s1, s2) == Cross(s1, s2) = 0

\* C36: calculate_intersection returns the undefined Location when the
\* segments share the location of an end, and when they are parallel or
\* on one line, also when they overlap; in these cases the result is the
\* same for (s1, s2) and (s2, s1)
C36_NoIntersection ==
    (IntersectCall /\ (SharedEnd(fn_call.s1, fn_call.s2)
                         \/ Parallel(fn_call.s1, fn_call.s2))) =>
        /\ fn_result = UndefinedLocation
        /\ calculate_intersection(fn_call.s2, fn_call.s1) = fn_result

\* ---------------------------- properties: OPL parser, repeated fields
\* the fields of the line whose letter does not occur again behind them
LastOccurrences(l) ==
    { i \in 1..Len(l.fields) :
        \A j \in (i + 1)..Len(l.fields) :
            l.fields[j].text[1] # l.fields[i].text[1] }

RECURSIVE FieldsKept(_, _, _)
FieldsKept(fields, keep, i) ==
    IF i > Len(fields) THEN << >>
    ELSE (IF i \in keep THEN << fields[i] >> ELSE << >>)
             \o FieldsKept(fields, keep, i + 1)

\* the line with only the last occurrence of every field letter
LastOnly(l) ==
    [l EXCEPT !.fields = FieldsKept(l.fields, LastOccurrences(l), 1)]

\* the line of a node, way or relation was parsed, and a letter occurs more
\* than once in it
RepeatedLetters ==
    /\ line_count = 1
    /\ returned.ret
    /\ EntityType(FirstChar) \in { "node", "way", "relation" }
    /\ ~DistinctLetters(data)

\* C38: when a field letter occurs more than once in the line of a node, way
\* or relation, the committed entity is that of the last occurrence of each
\* field only (for v, d, c, t, i, u, T, N and M)
C38_RepeatedFields ==
    RepeatedLetters =>
        Committed(returned) =
            Committed(opl_parse_line(0, Text(LastOnly(data)), NewBuffer,
                                     opl_read_types))

\* ------------------------------------ properties: OPL parser, the cursor
\* the cursor a parsing function has ended with: where it has returned, or
\* where it has thrown its opl_error
EndsWithin(r, from, to) ==
    IF Failed(r) THEN r.kind = "opl_error" => r.data \in from..to
    ELSE r.s \in from..to

\* the fields of the line that are the N section of a way or the M section
\* of a relation
ListFields ==
    { i \in 1..Len(data.fields) :
        \/ /\ EntityType(FirstChar) = "way"
           /\ data.fields[i].text[1] = Code["N"]
        \/ /\ EntityType(FirstChar) = "relation"
           /\ data.fields[i].text[1] = Code["M"] }

\* the pointers to the first char of the section of field i and to the
\* char behind its last
SectionBegin(i) == FieldStart(data, i) + 2
SectionEnd(i) == FieldStart(data, i) + Len(data.fields[i].text) + 1

ListParsed(i) ==
    IF EntityType(FirstChar) = "way"
    THEN opl_parse_way_nodes(Text(data), SectionBegin(i), SectionEnd(i))
    ELSE opl_parse_relation_members(Text(data), SectionBegin(i),
                                    SectionEnd(i))

\* C39: the parsing functions keep the cursor between the start of the line
\* and its terminating NUL, and the parsing of an N or M section keeps it
\* between the start of the section and its recorded end
C39_CursorBounds ==
    (line_count >= 1 /\ EntityType(FirstChar) # "none") =>
        /\ EndsWithin(opl_parse_entity(EntityType(FirstChar), Text(data), 2),
                      1, Len(Text(data)) + 1)
        /\ \A i \in ListFields :
              EndsWithin(ListParsed(i), SectionBegin(i), SectionEnd(i))

\* a way was committed whose tags and nodes are in sections that are
\* followed by another field
C39_Witness ==
    /\ line_count = 1
    /\ returned.ret
    /\ Len(data.fields) = MaxFields
    /\ data.fields[1].text[1] = Code["T"]
    /\ 2 \in ListFields
    /\ SectionEnd(2) < Len(Text(data)) + 1
    /\ ListParsed(2).s = SectionEnd(2)
    /\ Len(Committed(returned)[1].nodes) = 2
    /\ Committed(returned)[1].tags # << >>

====
